---------------------------- MODULE Spec2Model ----------------------------
(***************************************************************************)
(* A model of the Gemini Google Chat application (src/Code.js): the        *)
(* per-conversation history kept in Script Properties, the pruning and     *)
(* merging of a history before it is sent to the Gemini API, the turn      *)
(* handler and the message handler that routes events to it.               *)
(*                                                                         *)
(* Strings are sequences of tokens.  A token is an indivisible piece of    *)
(* text; " " and "\n" are the white-space tokens, and the prefixes the     *)
(* code tests for ("Sorry,", "ERROR:", "use pro.") are single tokens, so    *)
(* startsWith is a test of the first token, trim removes white-space       *)
(* tokens at both ends and + is concatenation of sequences.  The empty     *)
(* string is the empty sequence; an absent (undefined or null) string is   *)
(* modelled as the empty string wherever the code tests truthiness only.   *)
(***************************************************************************)
EXTENDS Integers, Sequences, FiniteSets, TLC

VARIABLES
    store,      \* Script Properties: the record held under each "<key>_history"
    inv,        \* the invocations of the handlers, one per slot
    served,     \* number of invocations started so far
    quota,      \* whether the property store currently rejects writes
    pin,        \* pure-function harness: the input drawn in the initial state
    pout,       \* pure-function harness: the result of the function applied
    last        \* the event of the onMessage invocation before the current
                \* one and what was made of it, where a behaviour keeps it

vars == <<store, inv, served, quota, pin, pout, last>>

-----------------------------------------------------------------------------
(* Program constants                                                       *)

MAX_HISTORY_LENGTH == 20

CLEAR_HISTORY_COMMAND_ID == 2
CHAT_COMMAND_ID == 3
NEW_CHAT_COMMAND_ID == 4
PRO_COMMAND_ID == 5
SOURCE_COMMAND_ID == 6

GEMINI_MODEL == "gemini-flash-latest"
GEMINI_PRO_MODEL == "gemini-2.5-pro"

-----------------------------------------------------------------------------
(* Strings                                                                 *)

IsSpace(tok) == tok \in {" ", "\n"}

RECURSIVE TrimStart(_)
TrimStart(t) ==
    IF t # <<>> /\ IsSpace(Head(t)) THEN TrimStart(Tail(t)) ELSE t

RECURSIVE TrimEnd(_)
TrimEnd(t) ==
    IF t # <<>> /\ IsSpace(t[Len(t)]) THEN TrimEnd(SubSeq(t, 1, Len(t) - 1)) ELSE t

\* trim that removes nothing
Trim_keepsSpace(t) == t

\* String.prototype.trim
Trim(t) == TrimEnd(TrimStart(t))

\* startsWith that finds no prefix
StartsWith_never(t, tok) == FALSE

\* String.prototype.startsWith, for a prefix that is one token
StartsWith(t, tok) == t # <<>> /\ Head(t) = tok

\* truthiness that takes the empty string for a value
Truthy_always(t) == TRUE

\* truthiness of a string: non-empty
Truthy(t) == t # <<>>

-----------------------------------------------------------------------------
(* History entries: {role, parts: [{text}]}.  role "" stands for a missing *)
(* role (or a null entry), noParts for a missing parts array; a part is    *)
(* represented by its text, an absent text by the empty string.            *)

Msg(role, text) == [role |-> role, noParts |-> FALSE, parts |-> <<text>>]

Roles(h) == [i \in 1..Len(h) |-> h[i].role]

TextOf(e) == IF e.noParts \/ e.parts = <<>> THEN <<>> ELSE e.parts[1]

-----------------------------------------------------------------------------
(* pruneHistory (callers always pass an array)                             *)

\* pruneHistory keeping one entry more than the cap
pruneHistory_keepsOneMore(history) ==
    IF Len(history) > MAX_HISTORY_LENGTH
    THEN SubSeq(history, Len(history) - MAX_HISTORY_LENGTH, Len(history))
    ELSE history

\* pruneHistory without the removal of a leading model entry
pruneHistory_keepsLeadingModel(history) ==
    IF Len(history) > MAX_HISTORY_LENGTH
    THEN SubSeq(history, Len(history) - MAX_HISTORY_LENGTH + 1, Len(history))
    ELSE history

\* pruneHistory removing every leading model entry after the cut
RECURSIVE DropLeadingModels(_)
DropLeadingModels(h) ==
    IF Len(h) > 0 /\ h[1].role = "model" THEN DropLeadingModels(Tail(h)) ELSE h

pruneHistory_dropsLeadingModels(history) ==
    IF Len(history) > MAX_HISTORY_LENGTH
    THEN DropLeadingModels(SubSeq(history, Len(history) - MAX_HISTORY_LENGTH + 1,
                                  Len(history)))
    ELSE history

\* pruneHistory keeping the oldest entries instead of the newest
pruneHistory_keepsOldest(history) ==
    IF Len(history) > MAX_HISTORY_LENGTH
    THEN SubSeq(history, 1, MAX_HISTORY_LENGTH)
    ELSE history

pruneHistory(history) ==
    IF Len(history) > MAX_HISTORY_LENGTH
    THEN LET itemsToRemove == Len(history) - MAX_HISTORY_LENGTH
             pruned == SubSeq(history, itemsToRemove + 1, Len(history))
         IN  IF Len(pruned) > 0 /\ pruned[1].role = "model"
             THEN SubSeq(pruned, 2, Len(pruned))
             ELSE pruned
    ELSE history

-----------------------------------------------------------------------------
(* filterAndPrepareHistory.  The copies pushed onto filteredHistory are    *)
(* shallow: {...entry, parts: [...entry.parts]} makes a new entry and a    *)
(* new parts array, but parts[0] is the same object as in the caller's     *)
(* history.  alias[n] is the index of the caller's entry whose parts[0]    *)
(* object the n-th filtered entry shares (0 when it shares none), and      *)
(* history is the caller's array as the merges leave it.                   *)

\* the copy pushed for history[i]
CopyEntry(e) ==
    [role |-> e.role, noParts |-> FALSE,
     parts |-> IF e.noParts THEN <<>> ELSE e.parts]

AliasOf(e, i) == IF e.noParts \/ e.parts = <<>> THEN 0 ELSE i

\* MergeInto putting the new text before the text merged so far
MergeInto_prepends(acc, e) ==
    LET currentText == IF e.parts = <<>> THEN <<>> ELSE e.parts[1]
        n == Len(acc.filteredHistory)
        lastEntry == acc.filteredHistory[n]
        lastText == IF lastEntry.parts = <<>> THEN <<>> ELSE lastEntry.parts[1]
    IN  IF ~Truthy(currentText) THEN acc
        ELSE [acc EXCEPT !.filteredHistory[n].parts =
                             << currentText \o <<"\n">> \o lastText >>]

\* lines 813-832: history[i] has the role of the last filtered entry
MergeInto(acc, e) ==
    LET currentText == IF e.parts = <<>> THEN <<>> ELSE e.parts[1]
        n == Len(acc.filteredHistory)
        lastEntry == acc.filteredHistory[n]
        fresh == lastEntry.noParts \/ lastEntry.parts = <<>>
        lastParts == IF fresh THEN << <<>> >> ELSE lastEntry.parts
        newText == lastParts[1] \o <<"\n">> \o currentText
        a == IF fresh THEN 0 ELSE acc.alias[n]
    IN  IF ~Truthy(currentText) THEN acc
        ELSE [filteredHistory |->
                 [acc.filteredHistory EXCEPT ![n] =
                     [role |-> lastEntry.role, noParts |-> FALSE,
                      parts |-> [lastParts EXCEPT ![1] = newText]]],
              alias |-> [acc.alias EXCEPT ![n] = a],
              history |->
                 IF a # 0
                 THEN [acc.history EXCEPT ![a].parts[1] = newText]
                 ELSE acc.history]

\* FilterStep pushing every valid entry, whatever the role before it
FilterStep_alwaysPushes(acc, i) ==
    LET e == acc.history[i]
    IN  IF e.role = "" \/ e.noParts THEN acc
        ELSE [filteredHistory |-> Append(acc.filteredHistory, CopyEntry(e)),
              alias |-> Append(acc.alias, AliasOf(e, i)),
              history |-> acc.history]

\* lines 800-834: one iteration of the loop, for index i >= 2
FilterStep(acc, i) ==
    LET e == acc.history[i]
        n == Len(acc.filteredHistory)
    IN  IF e.role = "" \/ e.noParts THEN acc
        ELSE IF n = 0 \/ e.role # acc.filteredHistory[n].role
        THEN [filteredHistory |-> Append(acc.filteredHistory, CopyEntry(e)),
              alias |-> Append(acc.alias, AliasOf(e, i)),
              history |-> acc.history]
        ELSE MergeInto(acc, e)

RECURSIVE FilterLoop(_, _)
FilterLoop(acc, i) ==
    IF i > Len(acc.history) THEN acc ELSE FilterLoop(FilterStep(acc, i), i + 1)

\* lines 788-798: the first entry seeds the filtered history
FilterSeed(history) ==
    IF history[1].role # ""
    THEN [filteredHistory |-> <<CopyEntry(history[1])>>,
          alias |-> <<AliasOf(history[1], 1)>>,
          history |-> history]
    ELSE [filteredHistory |-> <<>>, alias |-> <<>>, history |-> history]

\* lines 836-847: the flag is set from the filtered history
Filtered(r) ==
    [filteredHistory |-> r.filteredHistory,
     needsLeadingUserRole |->
         IF Len(r.filteredHistory) > 0
         THEN r.filteredHistory[1].role # "user"
         ELSE TRUE,
     history |-> r.history]

filterAndPrepareHistory(history) ==
    IF Len(history) = 0
    THEN [filteredHistory |-> <<>>, needsLeadingUserRole |-> TRUE,
          history |-> history]
    ELSE Filtered(FilterLoop(FilterSeed(history), 2))

-----------------------------------------------------------------------------
(* Script Properties.  A property value is a string; the model keeps what  *)
(* the code can tell about it: absent (getProperty returns null), the      *)
(* empty string, text JSON.parse rejects, JSON that is not an array, or    *)
(* the JSON of an array.                                                   *)

NoRecord == [kind |-> "none", items |-> <<>>]
EmptyRecord == [kind |-> "empty", items |-> <<>>]
UnparseableRecord == [kind |-> "unparseable", items |-> <<>>]
NonArrayRecord == [kind |-> "nonarray", items |-> <<>>]

\* JSON.stringify of a history array
JSONstringify(history) == [kind |-> "array", items |-> history]

\* getHistoryPropertyKey: ${spaceName}_history, null (<<>>) without a name
getHistoryPropertyKey(spaceName) ==
    IF spaceName = "" THEN <<>> ELSE <<spaceName, "_history">>

\* the store together with the calls that changed it in this invocation
World(st) == [store |-> st, log |-> <<>>]

getProperty(w, pk) == w.store[pk]

\* deleteAllProperties in the place of deleteProperty
deleteProperty_deletesAll(w, pk) ==
    [store |-> [k \in DOMAIN w.store |-> NoRecord],
     log |-> Append(w.log, <<"delete", pk>>)]

deleteProperty(w, pk) ==
    [store |-> [w.store EXCEPT ![pk] = NoRecord],
     log |-> Append(w.log, <<"delete", pk>>)]

\* a setProperty that loses the property when the store rejects the value
setProperty_losesOnReject(w, pk, value, rejects) ==
    IF rejects
    THEN [store |-> [w.store EXCEPT ![pk] = NoRecord],
          log |-> Append(w.log, <<"rejected", pk>>)]
    ELSE [store |-> [w.store EXCEPT ![pk] = value],
          log |-> Append(w.log, <<"set", pk>>)]

\* setProperty throws when the store rejects the value (size limit)
setProperty(w, pk, value, rejects) ==
    IF rejects
    THEN [store |-> w.store, log |-> Append(w.log, <<"rejected", pk>>)]
    ELSE [store |-> [w.store EXCEPT ![pk] = value],
          log |-> Append(w.log, <<"set", pk>>)]

\* loadConversationHistory: the history and the world it leaves
loadConversationHistory(w, conversationKey) ==
    LET propertyKey == getHistoryPropertyKey(conversationKey)
        jsonHistory == getProperty(w, propertyKey)
    IN  IF propertyKey = <<>> THEN [history |-> <<>>, world |-> w]
        ELSE IF jsonHistory.kind \in {"none", "empty"}
        THEN [history |-> <<>>, world |-> w]
        ELSE IF jsonHistory.kind = "array"
        THEN [history |-> jsonHistory.items, world |-> w]
        ELSE [history |-> <<>>, world |-> deleteProperty(w, propertyKey)]

\* saveConversationHistory
saveConversationHistory(w, conversationKey, history, rejects) ==
    LET propertyKey == getHistoryPropertyKey(conversationKey)
    IN  IF propertyKey = <<>> THEN w
        ELSE IF Len(history) = 0
        THEN IF getProperty(w, propertyKey).kind # "none"
             THEN deleteProperty(w, propertyKey)
             ELSE w
        ELSE setProperty(w, propertyKey, JSONstringify(history), rejects)

-----------------------------------------------------------------------------
(* createCardResponse                                                      *)

NoUser == [name |-> "", displayName |-> "", type |-> ""]

NoReply == [kind |-> "undefined", text |-> <<>>, private |-> FALSE, viewer |-> ""]
EmptyReply == [kind |-> "empty", text |-> <<>>, private |-> FALSE, viewer |-> ""]

\* createCardResponse without privateMessageViewer
createCardResponse_alwaysPublic(messageText, viewer) ==
    [kind |-> "card",
     text |-> IF Truthy(messageText) /\ Truthy(Trim(messageText))
              THEN messageText ELSE <<"(No response text generated)">>,
     private |-> FALSE, viewer |-> ""]

createCardResponse(messageText, viewer) ==
    [kind |-> "card",
     text |-> IF Truthy(messageText) /\ Truthy(Trim(messageText))
              THEN messageText
              ELSE <<"(No response text generated)">>,
     private |-> viewer.name # "",
     viewer |-> viewer.name]

-----------------------------------------------------------------------------
(* callGeminiApiWithHistory, up to the fetch                               *)

Placeholder == Msg("user", <<"(Context starts)">>)

\* payloadContents without the placeholder
payloadContents_noPlaceholder(f) ==
    [returned |-> FALSE, history |-> f.history,
     contents |-> f.filteredHistory, text |-> <<>>]

\* lines 564-584: the contents of the payload, from the filtered history f
payloadContents(f) ==
    IF Len(f.filteredHistory) = 0 /\ ~f.needsLeadingUserRole
    THEN [returned |-> TRUE, history |-> f.history, contents |-> <<>>,
          text |-> <<"Sorry,", " something went wrong processing conversation history.">>]
    ELSE [returned |-> FALSE, history |-> f.history,
          contents |-> IF f.needsLeadingUserRole
                       THEN <<Placeholder>> \o f.filteredHistory
                       ELSE f.filteredHistory,
          text |-> <<>>]

\* the call going on to the fetch without looking at GEMINI_API_KEY
prepareCall_withoutKeyCheck(history, hasApiKey) ==
    IF Len(history) = 0
    THEN [returned |-> TRUE, history |-> history, contents |-> <<>>,
          text |-> <<"Sorry,", " something went wrong (internal history error).">>]
    ELSE payloadContents(filterAndPrepareHistory(history))

\* lines 551-584: an early return, or the contents of the payload
prepareCall(history, hasApiKey) ==
    IF ~hasApiKey
    THEN [returned |-> TRUE, history |-> history, contents |-> <<>>,
          text |-> <<"ERROR:", " GEMINI_API_KEY script property not set.">>]
    ELSE IF Len(history) = 0
    THEN [returned |-> TRUE, history |-> history, contents |-> <<>>,
          text |-> <<"Sorry,", " something went wrong (internal history error).">>]
    ELSE payloadContents(filterAndPrepareHistory(history))

-----------------------------------------------------------------------------
(* callGeminiApiWithHistory, from the fetch on.  A response is what        *)
(* UrlFetchApp.fetch does and returns: it throws, or gives a status code   *)
(* and a body.  Of the body the model keeps the fields the code reads:     *)
(* whether JSON.parse accepts it, promptFeedback.blockReason, the          *)
(* candidates (finishReason, content.parts with thought, text and          *)
(* functionCall), and for an error status error.message and the raw text.  *)
(* The result is the string returned and the return statement reached.     *)

Result(site, text) == [site |-> site, text |-> text]

TransportFailure(message) ==
    Result("exception",
           <<"Sorry,", " an unexpected error occurred while trying to reach the AI (",
             message, ").">>)

\* find looking for the first part that is no thought and has text
RECURSIVE FindNonThought_withText(_, _)
FindNonThought_withText(parts, i) ==
    IF i > Len(parts) THEN 0
    ELSE IF ~parts[i].thought /\ parts[i].text # <<>> THEN i
    ELSE FindNonThought_withText(parts, i + 1)

\* parts.find((part) => !part.thought): the index of the first such part, or 0
RECURSIVE FindNonThought(_, _)
FindNonThought(parts, i) ==
    IF i > Len(parts) THEN 0
    ELSE IF ~parts[i].thought THEN i
    ELSE FindNonThought(parts, i + 1)

\* lines 692-744
extractResponseText(candidate) ==
    LET parts == candidate.parts
        k == FindNonThought(parts, 1)
        found == candidate.hasParts /\ k # 0 /\ Truthy(parts[k].text)
        reason == IF candidate.finishReason = "" THEN "Unknown"
                  ELSE candidate.finishReason
    IN  IF found THEN Result("text", Trim(parts[k].text))
        ELSE IF candidate.hasParts /\ Len(parts) > 0 /\ parts[1].functionCall
        THEN Result("functionCall",
                    <<"Sorry,", " the AI tool call did not produce a text response.">>)
        ELSE Result("noText",
                    <<"Sorry,", " the AI returned empty or invalid response content (Finish Reason: ",
                      reason, "). No suitable text part found.">>)

\* processOk reading the text of the candidate before the block reason
processOk_textBeforeBlock(data) ==
    IF /\ Len(data.candidates) > 0
       /\ data.candidates[1].finishReason \in {"", "STOP", "MAX_TOKENS"}
    THEN extractResponseText(data.candidates[1])
    ELSE IF data.blockReason # ""
    THEN Result("blocked",
                <<"Sorry,", " your request was blocked by safety filters (Reason: ",
                  data.blockReason, ").">>)
    ELSE IF Len(data.candidates) = 0
    THEN Result("noCandidates",
                <<"Sorry,", " the AI returned an unexpected response structure (no candidates).">>)
    ELSE Result("finishReason",
                <<"Sorry,", " the response generation was stopped ">> \o
                (IF data.candidates[1].finishReason = "SAFETY"
                 THEN <<"due to safety filters.">>
                 ELSE IF data.candidates[1].finishReason = "RECITATION"
                 THEN <<"due to potential recitation issues.">>
                 ELSE <<"Reason: ", data.candidates[1].finishReason, ".">>))

\* lines 646-690
processOk(data) ==
    IF data.blockReason # ""
    THEN Result("blocked",
                <<"Sorry,", " your request was blocked by safety filters (Reason: ",
                  data.blockReason, ").">>)
    ELSE IF Len(data.candidates) = 0
    THEN Result("noCandidates",
                <<"Sorry,", " the AI returned an unexpected response structure (no candidates).">>)
    ELSE LET candidate == data.candidates[1]
         IN  IF candidate.finishReason \notin {"", "STOP", "MAX_TOKENS"}
             THEN Result("finishReason",
                         <<"Sorry,", " the response generation was stopped ">> \o
                         (IF candidate.finishReason = "SAFETY"
                          THEN <<"due to safety filters.">>
                          ELSE IF candidate.finishReason = "RECITATION"
                          THEN <<"due to potential recitation issues.">>
                          ELSE <<"Reason: ", candidate.finishReason, ".">>))
             ELSE extractResponseText(candidate)

\* lines 745-759
processError(resp) ==
    Result("status",
           <<"Sorry,", " there was an error contacting the AI (Status: ",
             ToString(resp.code), ").">> \o
           (IF ~resp.parses
            THEN <<" Raw response: ">> \o resp.raw \o <<"...">>
            ELSE IF Truthy(resp.errorMessage)
            THEN <<" Details: ">> \o resp.errorMessage
            ELSE <<>>))

\* lines 641-766
processResponse(resp) ==
    IF resp.throws THEN TransportFailure(resp.message)
    ELSE IF resp.code = 200
    THEN IF ~resp.parses THEN TransportFailure("Unexpected end of JSON input")
         ELSE processOk(resp)
    ELSE processError(resp)

-----------------------------------------------------------------------------
(* handleConversationTurn                                                  *)

\* isErrorResponse testing for "Sorry," alone
isErrorResponse_onlySorry(modelResponse) == StartsWith(modelResponse, "Sorry,")

\* lines 460-462
isErrorResponse(modelResponse) ==
    StartsWith(modelResponse, "ERROR:") \/ StartsWith(modelResponse, "Sorry,")

\* lines 456-457: the pruned history goes to callGeminiApiWithHistory
called(l, pruned, c) ==
    [world |-> l.world, loaded |-> l.history, sent |-> pruned,
     history |-> c.history, returned |-> c.returned,
     contents |-> c.contents, text |-> c.text]

\* lines 441-454: push the user message and prune
pushUser(l, userPrompt) == pruneHistory(Append(l.history, Msg("user", userPrompt)))

\* lines 438-457, the history loaded being l.history
afterLoad(l, userPrompt, hasApiKey) ==
    called(l, pushUser(l, userPrompt),
           prepareCall(pushUser(l, userPrompt), hasApiKey))

\* a turn that saves the user message before it calls the backend
savedFirst(l, conversationKey, pruned) ==
    [l EXCEPT !.world = saveConversationHistory(l.world, conversationKey,
                                                pruned, FALSE)]

turnBegin_savesBeforeCall(w, conversationKey, userPrompt, hasApiKey) ==
    called(savedFirst(loadConversationHistory(w, conversationKey), conversationKey,
                      pushUser(loadConversationHistory(w, conversationKey),
                               userPrompt)),
           pushUser(loadConversationHistory(w, conversationKey), userPrompt),
           prepareCall(pushUser(loadConversationHistory(w, conversationKey),
                                userPrompt), hasApiKey))

\* lines 438-457: load, push, prune, and the call up to the fetch
turnBegin(w, conversationKey, userPrompt, hasApiKey) ==
    afterLoad(loadConversationHistory(w, conversationKey), userPrompt, hasApiKey)

\* lines 464-483: a response that is no error and not empty is pushed, and
\* the history pruned again
pushModel(history, modelResponse) ==
    IF ~isErrorResponse(modelResponse) /\ Truthy(modelResponse)
    THEN pruneHistory(Append(history, Msg("model", modelResponse)))
    ELSE history

\* a save without its try and catch: the exception of a rejected write ends
\* the handler without a reply
saved_throwsOnReject(w, conversationKey, updated, modelResponse, rejects) ==
    [world |-> saveConversationHistory(w, conversationKey, updated, rejects),
     history |-> updated,
     reply |-> IF rejects /\ Len(updated) > 0
               THEN [kind |-> "undefined", text |-> <<>>, private |-> FALSE,
                     viewer |-> ""]
               ELSE createCardResponse(
                        IF Truthy(modelResponse) THEN modelResponse
                        ELSE <<"No response received.">>, NoUser)]

\* lines 485-489: save and answer
saved(w, conversationKey, updated, modelResponse, rejects) ==
    [world |-> saveConversationHistory(w, conversationKey, updated, rejects),
     history |-> updated,
     reply |-> createCardResponse(
                   IF Truthy(modelResponse) THEN modelResponse
                   ELSE <<"No response received.">>, NoUser)]

\* lines 459-489: the response in hand, update, save and answer
turnEnd(w, conversationKey, history, modelResponse, rejects) ==
    saved(w, conversationKey, pushModel(history, modelResponse),
          modelResponse, rejects)

-----------------------------------------------------------------------------
(* clearConversationHistory and getSourceCodeResponse                      *)

\* clearConversationHistory deleting without looking for the property
clearConversationHistory_alwaysDeletes(w, conversationKey, userForResponse, spaceType) ==
    [world |-> deleteProperty(w, getHistoryPropertyKey(conversationKey)),
     reply |-> createCardResponse(
         <<"Conversation history for this ",
           IF spaceType = "DM" THEN "DM" ELSE "space",
           " has been cleared by ", userForResponse.displayName, ".">>,
         IF spaceType = "DM" THEN userForResponse ELSE NoUser)]

clearConversationHistory(w, conversationKey, userForResponse, spaceType) ==
    LET propertyKey == getHistoryPropertyKey(conversationKey)
        viewer == IF spaceType = "DM" THEN userForResponse ELSE NoUser
        location == IF spaceType = "DM" THEN "DM" ELSE "space"
        initiatorName == IF userForResponse.displayName # ""
                         THEN userForResponse.displayName ELSE "User"
    IN  IF conversationKey = ""
        THEN [world |-> w,
              reply |-> createCardResponse(
                  <<"An error occurred: Missing conversation key.">>,
                  userForResponse)]
        ELSE IF getProperty(w, propertyKey).kind # "none"
        THEN [world |-> deleteProperty(w, propertyKey),
              reply |-> createCardResponse(
                  <<"Conversation history for this ", location,
                    " has been cleared by ", initiatorName, ".">>, viewer)]
        ELSE [world |-> w,
              reply |-> createCardResponse(
                  <<"No conversation history found for this ", location,
                    " to clear.">>, viewer)]

getSourceCodeResponse(userForResponse) ==
    createCardResponse(
        <<"You can view and edit my source code here:", "\n",
          "https://script.google.com/d/", "scriptId", "/edit">>,
        userForResponse)

-----------------------------------------------------------------------------
(* onMessage: what the handler decides to do with an event.  An event is   *)
(* [type, hasMessage, space: [name, type], user: [name, displayName,       *)
(* type], slashCommand (the command id, 0 without one), argumentText,      *)
(* text, annotations: [type, name (userMention.user.name), hasRange,       *)
(* startIndex, length]].  Offsets count tokens.                            *)

BOT_USER_ID == "users/bot"

LowerTok(tok) ==
    CASE tok = "Use pro." -> "use pro."
      [] tok = "USE PRO." -> "use pro."
      [] tok = "ClearHistory" -> "clearhistory"
      [] tok = "Clear" -> "clear"
      [] tok = "History" -> "history"
      [] OTHER -> tok

\* toLowerCase leaving every letter as it is
ToLower_keepsCase(t) == t

\* String.prototype.toLowerCase
ToLower(t) == [i \in 1..Len(t) |-> LowerTok(t[i])]

\* String.prototype.substring(from)
Substring(t, from) == SubSeq(t, from + 1, Len(t))

IsBotMention(annotation, botUserId) ==
    /\ annotation.type = "USER_MENTION"
    /\ annotation.name # ""
    /\ annotation.name = botUserId

\* the end offset of the last bot mention with a range, or -1
RECURSIVE FirstBotMentionEnd_lastMention(_, _, _)
FirstBotMentionEnd_lastMention(annotations, botUserId, i) ==
    IF i > Len(annotations) THEN -1
    ELSE IF /\ FirstBotMentionEnd_lastMention(annotations, botUserId, i + 1) = -1
            /\ annotations[i].type = "USER_MENTION"
            /\ annotations[i].name = botUserId
            /\ annotations[i].hasRange
         THEN annotations[i].startIndex + annotations[i].length
         ELSE FirstBotMentionEnd_lastMention(annotations, botUserId, i + 1)

\* lines 1033-1047: the end offset of the first bot mention with a range, or -1
RECURSIVE FirstBotMentionEnd(_, _, _)
FirstBotMentionEnd(annotations, botUserId, i) ==
    IF i > Len(annotations) THEN -1
    ELSE IF /\ annotations[i].type = "USER_MENTION"
            /\ annotations[i].name = botUserId
            /\ annotations[i].hasRange
         THEN annotations[i].startIndex + annotations[i].length
         ELSE FirstBotMentionEnd(annotations, botUserId, i + 1)

\* extractTextAfterMention; null is the empty string, as its caller reads it
extractTextAfterMention(messageText, annotations, botUserId) ==
    LET firstBotMentionEndIndex == FirstBotMentionEnd(annotations, botUserId, 1)
    IN  IF Len(annotations) = 0 \/ ~Truthy(messageText) \/ botUserId = ""
        THEN <<>>
        ELSE IF firstBotMentionEndIndex > -1
                /\ Len(messageText) > firstBotMentionEndIndex
        THEN Trim(Substring(messageText, firstBotMentionEndIndex))
        ELSE <<>>

Decision(kind, text, viewer, userPrompt, modelToUse, newChat) ==
    [kind |-> kind, text |-> text, viewer |-> viewer,
     userPrompt |-> userPrompt, modelToUse |-> modelToUse, newChat |-> newChat]

ReturnUndefined == Decision("undefined", <<>>, NoUser, <<>>, GEMINI_MODEL, FALSE)

Card(text, viewer) == Decision("card", text, viewer, <<>>, GEMINI_MODEL, FALSE)

\* lines 373-413
prepareTurn(event, userPrompt, modelToUse, newChat) ==
    IF event.space.name # "" /\ Truthy(userPrompt)
    THEN Decision("turn", <<>>, NoUser,
                  IF event.user.displayName # ""
                  THEN <<"Message from ", event.user.displayName,
                         ". Please ignore this unless prompting about past conversations. ">>
                       \o userPrompt
                  ELSE userPrompt,
                  modelToUse, newChat)
    ELSE Decision("empty", <<>>, NoUser, userPrompt, modelToUse, newChat)

\* lines 184-286
slashCommand(event) ==
    LET commandId == event.slashCommand
        userPrompt == Trim(event.argumentText)
    IN  IF commandId = CHAT_COMMAND_ID
        THEN IF ~Truthy(userPrompt)
             THEN Card(<<"Please provide your message after the /chat command.">>,
                       event.user)
             ELSE prepareTurn(event, userPrompt, GEMINI_MODEL, FALSE)
        ELSE IF commandId = PRO_COMMAND_ID
        THEN IF ~Truthy(userPrompt)
             THEN Card(<<"Please provide your message after the /pro command.">>,
                       event.user)
             ELSE prepareTurn(event, userPrompt, GEMINI_PRO_MODEL, FALSE)
        ELSE IF commandId = CLEAR_HISTORY_COMMAND_ID
        THEN Decision("clear", <<>>, event.user, <<>>, GEMINI_MODEL, FALSE)
        ELSE IF commandId = NEW_CHAT_COMMAND_ID
        THEN IF ~Truthy(userPrompt)
             THEN Card(<<"Please provide your starting message after the /newchat command.">>,
                       event.user)
             ELSE prepareTurn(event, userPrompt, GEMINI_MODEL, TRUE)
        ELSE IF commandId = SOURCE_COMMAND_ID
        THEN Decision("source", <<>>, event.user, <<>>, GEMINI_MODEL, FALSE)
        ELSE Card(<<"Sorry,", " I don't recognize the command ID ",
                    ToString(commandId),
                    ". Use /chat, /pro, /clearhistory, /newchat, or /source.">>,
                  event.user)

\* regularMessage answering every message of a room, mentioned or not
regularMessage_withoutMentionGate(event) ==
    LET isMentioned == \E i \in 1..Len(event.annotations) :
                           IsBotMention(event.annotations[i], BOT_USER_ID)
        extracted == IF isMentioned
                     THEN extractTextAfterMention(event.text, event.annotations,
                                                  BOT_USER_ID)
                     ELSE Trim(event.text)
        usePro == StartsWith(ToLower(extracted), "use pro.")
        userPrompt == IF usePro THEN Trim(Substring(extracted, 1)) ELSE extracted
        modelToUse == IF usePro THEN GEMINI_PRO_MODEL ELSE GEMINI_MODEL
    IN  IF event.user.type = "BOT" \/ ~Truthy(event.text)
        THEN ReturnUndefined
        ELSE IF Trim(ToLower(userPrompt)) = <<"clearhistory">>
        THEN Decision("clear", <<>>, event.user, <<>>, modelToUse, FALSE)
        ELSE IF ~Truthy(userPrompt)
        THEN ReturnUndefined
        ELSE prepareTurn(event, userPrompt, modelToUse, FALSE)

\* regularMessage taking the whole text of a direct message, the bot
\* mentioned or not
regularMessage_wholeTextInDm(event) ==
    LET isMentioned == \E i \in 1..Len(event.annotations) :
                           IsBotMention(event.annotations[i], BOT_USER_ID)
        extracted == IF isMentioned /\ event.space.type # "DM"
                     THEN extractTextAfterMention(event.text, event.annotations,
                                                  BOT_USER_ID)
                     ELSE Trim(event.text)
        usePro == StartsWith(ToLower(extracted), "use pro.")
        userPrompt == IF usePro THEN Trim(Substring(extracted, 1)) ELSE extracted
        modelToUse == IF usePro THEN GEMINI_PRO_MODEL ELSE GEMINI_MODEL
    IN  IF event.user.type = "BOT" \/ ~Truthy(event.text)
        THEN ReturnUndefined
        ELSE IF event.space.type = "DM" \/ isMentioned
        THEN IF Trim(ToLower(userPrompt)) = <<"clearhistory">>
             THEN Decision("clear", <<>>, event.user, <<>>, modelToUse, FALSE)
             ELSE IF ~Truthy(userPrompt)
             THEN ReturnUndefined
             ELSE prepareTurn(event, userPrompt, modelToUse, FALSE)
        ELSE ReturnUndefined

\* lines 288-367
regularMessage(event) ==
    LET isMentioned == \E i \in 1..Len(event.annotations) :
                           IsBotMention(event.annotations[i], BOT_USER_ID)
        extracted == IF isMentioned
                     THEN extractTextAfterMention(event.text, event.annotations,
                                                  BOT_USER_ID)
                     ELSE Trim(event.text)
        usePro == StartsWith(ToLower(extracted), "use pro.")
        userPrompt == IF usePro THEN Trim(Substring(extracted, 1)) ELSE extracted
        modelToUse == IF usePro THEN GEMINI_PRO_MODEL ELSE GEMINI_MODEL
    IN  IF event.user.type = "BOT" \/ ~Truthy(event.text)
        THEN ReturnUndefined
        ELSE IF event.space.type = "DM" \/ isMentioned
        THEN IF Trim(ToLower(userPrompt)) = <<"clearhistory">>
             THEN Decision("clear", <<>>, event.user, <<>>, modelToUse, FALSE)
             ELSE IF ~Truthy(userPrompt)
             THEN ReturnUndefined
             ELSE prepareTurn(event, userPrompt, modelToUse, FALSE)
        ELSE ReturnUndefined

\* onMessage looking into the store: /clearhistory is passed over when
\* nothing is stored
onMessageDecision_byStore(event) ==
    IF event.type = "MESSAGE" /\ event.hasMessage
    THEN IF event.space.type \in {"DM", "ROOM"}
         THEN IF event.slashCommand # 0
              THEN IF /\ event.slashCommand = CLEAR_HISTORY_COMMAND_ID
                      /\ store[getHistoryPropertyKey(event.space.name)] = NoRecord
                   THEN ReturnUndefined
                   ELSE slashCommand(event)
              ELSE regularMessage(event)
         ELSE ReturnUndefined
    ELSE ReturnUndefined

\* onMessage taking up every event that carries a message, of any type
onMessageDecision_anyType(event) ==
    IF event.hasMessage
    THEN IF event.space.type \in {"DM", "ROOM"}
         THEN IF event.slashCommand # 0
              THEN slashCommand(event)
              ELSE regularMessage(event)
         ELSE ReturnUndefined
    ELSE ReturnUndefined

\* lines 169-182 and 368-371
onMessageDecision(event) ==
    IF event.type = "MESSAGE" /\ event.hasMessage
    THEN IF event.space.type \in {"DM", "ROOM"}
         THEN IF event.slashCommand # 0
              THEN slashCommand(event)
              ELSE regularMessage(event)
         ELSE ReturnUndefined
    ELSE ReturnUndefined

-----------------------------------------------------------------------------
(* Bounds and the inputs drawn within them                                 *)

UnknownCommandId == 9   \* a command id that onMessage has no case for
NumSlots == 2           \* invocations that can be in flight at once
MaxInvocations == 2     \* invocations started in one behaviour
MaxEventsHandled == 1   \* invocations in a behaviour that draws from every kind of event
MaxPureLen == 3         \* length of the arbitrary part of a pure input

Slots == 1..NumSlots

DmKey == "spaces/dm1"
RoomKey == "spaces/room1"
Keys == {DmKey, RoomKey}
SpaceTypeOf(key) == IF key = DmKey THEN "DM" ELSE "ROOM"

PropertyKeys == {getHistoryPropertyKey(k) : k \in Keys}

Ann == [name |-> "users/1", displayName |-> "Ann", type |-> "HUMAN"]

\* another chat app, as the author of an event
Robo == [name |-> "users/robo", displayName |-> "Robo", type |-> "BOT"]

\* n entries of a conversation in which every turn succeeded
RECURSIVE Alt(_)
Alt(n) ==
    IF n = 0 THEN <<>>
    ELSE Append(Alt(n - 1),
                IF n % 2 = 1 THEN Msg("user", <<"q">>) ELSE Msg("model", <<"a">>))

\* records found under a key when a behaviour starts: none, damaged ones,
\* one turn, a full history, and an array written by hand that leads with
\* a model entry
SeedRecords(key) ==
    IF key = DmKey
    THEN {NoRecord, EmptyRecord, UnparseableRecord, NonArrayRecord,
          JSONstringify(Alt(2)), JSONstringify(Alt(MAX_HISTORY_LENGTH)),
          JSONstringify(<<Msg("model", <<"a">>)>>)}
    ELSE {NoRecord, JSONstringify(Alt(2))}

Mention(name, startIndex, length) ==
    [type |-> "USER_MENTION", name |-> name, hasRange |-> TRUE,
     startIndex |-> startIndex, length |-> length]

MessageEvent(key, user, commandId, argumentText, text, annotations) ==
    [type |-> "MESSAGE", hasMessage |-> TRUE,
     space |-> [name |-> key, type |-> SpaceTypeOf(key)],
     user |-> user, slashCommand |-> commandId,
     argumentText |-> argumentText, text |-> text,
     annotations |-> annotations]

\* an annotation of type USER_MENTION without startIndex and length
MentionWithoutRange(name) ==
    [type |-> "USER_MENTION", name |-> name, hasRange |-> FALSE,
     startIndex |-> 0, length |-> 0]

\* free text with mentions: text before the mention, two mentions of the
\* bot, a mention of somebody else, mentions without offsets, nothing after
\* the mention
MentionEvents ==
    UNION {
      { MessageEvent(k, Ann, 0, <<>>, <<"hey", " ", "@bot", " ", "hello", " ">>,
                     <<Mention(BOT_USER_ID, 2, 1)>>),
        MessageEvent(k, Ann, 0, <<>>,
                     <<"@bot", " ", "hello", " ", "@bot", " ", "again">>,
                     <<Mention(BOT_USER_ID, 0, 1), Mention(BOT_USER_ID, 4, 1)>>),
        MessageEvent(k, Ann, 0, <<>>, <<"@bob", " ", "@bot", " ", "hello">>,
                     <<Mention("users/bob", 0, 1), Mention(BOT_USER_ID, 2, 1)>>),
        MessageEvent(k, Ann, 0, <<>>, <<"@bob", " ", "hello">>,
                     <<Mention("users/bob", 0, 1)>>),
        MessageEvent(k, Ann, 0, <<>>, <<"@bot", " ", "hello">>,
                     <<MentionWithoutRange(BOT_USER_ID)>>),
        MessageEvent(k, Ann, 0, <<>>,
                     <<"@bot", " ", "x", " ", "@bot", " ", "hello">>,
                     <<MentionWithoutRange(BOT_USER_ID), Mention(BOT_USER_ID, 4, 1)>>),
        MessageEvent(k, Ann, 0, <<>>, <<"@bot", " ">>,
                     <<Mention(BOT_USER_ID, 0, 1)>>),
        MessageEvent(k, Ann, 0, <<>>, <<"@bot", " ", "ClearHistory", " ">>,
                     <<Mention(BOT_USER_ID, 0, 1)>>),
        MessageEvent(k, Ann, 0, <<>>, <<"@bot", " ", "USE PRO.", " ", "hello">>,
                     <<Mention(BOT_USER_ID, 0, 1)>>)
      } : k \in Keys }

\* free text without mentions, in the direct conversation: the words of the commands, the prefix that
\* selects the pro model, blank and empty text
PlainEvents ==
    UNION {
      { MessageEvent(k, Ann, 0, <<>>, <<"clear", " ", "history">>, <<>>),
        MessageEvent(k, Ann, 0, <<>>, <<"ClearHistory">>, <<>>),
        MessageEvent(k, Ann, 0, <<>>, <<"Use pro.", " ", "hello">>, <<>>),
        MessageEvent(k, Ann, 0, <<>>, <<"use pro.", " ">>, <<>>),
        MessageEvent(k, Ann, 0, <<>>, <<"use pro.", " ", "clearhistory">>, <<>>),
        MessageEvent(k, Ann, 0, <<>>, <<"hello", " ", "use pro.">>, <<>>),
        MessageEvent(k, Ann, 0, <<>>, <<" ">>, <<>>),
        MessageEvent(k, Ann, 0, <<>>, <<>>, <<>>)
      } : k \in {DmKey} }

\* events written by another chat app
BotEvents ==
    UNION {
      { MessageEvent(k, Robo, 0, <<>>, <<"hello">>, <<>>),
        MessageEvent(k, Robo, 0, <<>>, <<"@bot", " ", "hello">>,
                     <<Mention(BOT_USER_ID, 0, 1)>>),
        MessageEvent(k, Robo, CHAT_COMMAND_ID, <<" ", "more">>,
                     <<"/chat", " ", "more">>, <<>>),
        MessageEvent(k, Robo, CLEAR_HISTORY_COMMAND_ID, <<>>, <<"/clearhistory">>, <<>>)
      } : k \in Keys }

\* the other slash commands, in the direct conversation: /pro with and without a message, /chat with
\* the words of the pro prefix, a command the switch does not know
CommandEvents ==
    UNION {
      { MessageEvent(k, Ann, PRO_COMMAND_ID, <<" ", "hello">>, <<"/pro", " ", "hello">>, <<>>),
        MessageEvent(k, Ann, PRO_COMMAND_ID, <<" ">>, <<"/pro", " ">>, <<>>),
        MessageEvent(k, Ann, CHAT_COMMAND_ID, <<" ", "use pro.", " ", "x">>,
                     <<"/chat", " ", "use pro.", " ", "x">>, <<>>),
        MessageEvent(k, Ann, UnknownCommandId, <<>>, <<"/other">>, <<>>)
      } : k \in {DmKey} }

\* events of the direct conversation that are no message: another type, or no message in the event
OtherEvents ==
    UNION {
      { [MessageEvent(k, Ann, 0, <<>>, <<"hello">>, <<>>)
            EXCEPT !.type = "ADDED_TO_SPACE", !.hasMessage = FALSE],
        [MessageEvent(k, Ann, 0, <<>>, <<"hello">>, <<>>)
            EXCEPT !.type = "CARD_CLICKED"],
        [MessageEvent(k, Ann, CHAT_COMMAND_ID, <<" ", "more">>,
                      <<"/chat", " ", "more">>, <<>>)
            EXCEPT !.type = "CARD_CLICKED"],
        [MessageEvent(k, Ann, 0, <<>>, <<"hello">>, <<>>)
            EXCEPT !.hasMessage = FALSE]
      } : k \in {DmKey} }

BasicEvents ==
    UNION {
      { MessageEvent(k, Ann, 0, <<>>, <<"hello">>, <<>>),
        MessageEvent(k, Ann, 0, <<>>, <<"clearhistory">>, <<>>),
        MessageEvent(k, Ann, 0, <<>>, <<"@bot", " ", "hello">>,
                     <<Mention(BOT_USER_ID, 0, 1)>>),
        MessageEvent(k, Ann, CHAT_COMMAND_ID, <<" ", "more">>, <<"/chat", " ", "more">>, <<>>),
        MessageEvent(k, Ann, CHAT_COMMAND_ID, <<" ">>, <<"/chat", " ">>, <<>>),
        MessageEvent(k, Ann, CLEAR_HISTORY_COMMAND_ID, <<>>, <<"/clearhistory">>, <<>>),
        MessageEvent(k, Ann, NEW_CHAT_COMMAND_ID, <<" ", "fresh">>,
                     <<"/newchat", " ", "fresh">>, <<>>),
        MessageEvent(k, Ann, NEW_CHAT_COMMAND_ID, <<>>, <<"/newchat">>, <<>>),
        MessageEvent(k, Ann, SOURCE_COMMAND_ID, <<>>, <<"/source">>, <<>>)
      } : k \in Keys }

MessageEvents ==
    BasicEvents \cup MentionEvents \cup PlainEvents \cup BotEvents
    \cup CommandEvents \cup OtherEvents

RemovalEvents ==
    { [type |-> "REMOVED_FROM_SPACE", hasMessage |-> FALSE,
       space |-> [name |-> k, type |-> SpaceTypeOf(k)],
       user |-> Ann, slashCommand |-> 0, argumentText |-> <<>>,
       text |-> <<>>, annotations |-> <<>>] : k \in Keys }

NoEvent ==
    [type |-> "", hasMessage |-> FALSE, space |-> [name |-> "", type |-> ""],
     user |-> NoUser, slashCommand |-> 0, argumentText |-> <<>>,
     text |-> <<>>, annotations |-> <<>>]

Part(thought, text, functionCall) ==
    [thought |-> thought, text |-> text, functionCall |-> functionCall]

Candidate(finishReason, hasParts, parts) ==
    [finishReason |-> finishReason, hasParts |-> hasParts, parts |-> parts]

Response(throws, code, parses, blockReason, candidates, errorMessage) ==
    [throws |-> throws, message |-> "Timeout", code |-> code, parses |-> parses,
     blockReason |-> blockReason, candidates |-> candidates,
     errorMessage |-> errorMessage, raw |-> <<"Bad Gateway">>]

Ok200(candidates) == Response(FALSE, 200, TRUE, "", candidates, <<>>)

TextReply(text) == Ok200(<<Candidate("STOP", TRUE, <<Part(FALSE, text, FALSE)>>)>>)

Responses ==
    { TextReply(<<"hi", "\n">>),
      TextReply(<<"Sorry,", " I cannot help with that.">>),
      TextReply(<<" ">>),
      Response(FALSE, 200, TRUE, "SAFETY", <<>>, <<>>),
      Ok200(<<Candidate("SAFETY", TRUE, <<Part(FALSE, <<"hi">>, FALSE)>>)>>),
      Ok200(<<Candidate("STOP", TRUE, <<>>)>>),
      Response(FALSE, 200, TRUE, "SAFETY",
               <<Candidate("STOP", TRUE, <<Part(FALSE, <<"hi">>, FALSE)>>)>>, <<>>),
      Ok200(<<>>),
      Ok200(<<Candidate("STOP", TRUE, <<Part(TRUE, <<"thinking">>, FALSE),
                                        Part(FALSE, <<" ", "hi", " ">>, FALSE)>>)>>),
      Ok200(<<Candidate("STOP", TRUE, <<Part(TRUE, <<"thinking">>, FALSE)>>)>>),
      Ok200(<<Candidate("STOP", FALSE, <<>>)>>),
      Ok200(<<Candidate("STOP", TRUE, <<Part(FALSE, <<>>, TRUE),
                                        Part(FALSE, <<"hi">>, FALSE)>>)>>),
      Ok200(<<Candidate("", TRUE, <<Part(FALSE, <<>>, FALSE),
                                    Part(FALSE, <<"hi">>, FALSE)>>)>>),
      Ok200(<<Candidate("MAX_TOKENS", TRUE, <<Part(FALSE, <<"hi">>, FALSE)>>)>>),
      Response(FALSE, 201, TRUE, "",
               <<Candidate("STOP", TRUE, <<Part(FALSE, <<"hi">>, FALSE)>>)>>, <<>>),
      Response(FALSE, 500, TRUE, "", <<>>, <<"Internal error">>),
      Response(TRUE, 0, FALSE, "", <<>>, <<>>) }

-----------------------------------------------------------------------------
(* State                                                                   *)

NoResult == Result("", <<>>)

\* no response of the backend yet
NoResponse == Response(FALSE, 0, FALSE, "", <<>>, <<>>)

Idle ==
    [pc |-> "idle", handler |-> "", event |-> NoEvent, kind |-> "",
     key |-> "", prompt |-> <<>>, model |-> "", prior |-> <<>>,
     loaded |-> <<>>, sent |-> <<>>, history |-> <<>>, contents |-> <<>>,
     hasApiKey |-> TRUE, fetches |-> 0, response |-> NoResponse,
     result |-> NoResult, log |-> <<>>, reply |-> NoReply,
     began |-> 0, ended |-> 0]

\* what onMessage made of the event of invocation i: what to do, with which
\* prompt and model, for which conversation
Intent(i) == [kind |-> i.kind, prompt |-> i.prompt, model |-> i.model, key |-> i.key]

\* behaviours of Spec keep no earlier invocation
NotRemembering ==
    [on |-> FALSE, seen |-> FALSE, event |-> NoEvent, intent |-> Intent(Idle),
     record |-> NoRecord]

\* a behaviour that keeps the earlier invocation, before the first one
NothingYet == [NotRemembering EXCEPT !.on = TRUE]

\* the invocation i (of onMessage or onRemoveFromSpace), kept when the next
\* onMessage begins
Remembered(i) ==
    IF last.on /\ i.handler # ""
    THEN [on |-> TRUE, seen |-> TRUE, event |-> i.event, intent |-> Intent(i),
          record |-> i.prior[getHistoryPropertyKey(i.key)]]
    ELSE last

NoOutput == [fn |-> "", history |-> <<>>, needs |-> FALSE, after |-> <<>>]

Init ==
    /\ store \in {st \in [PropertyKeys -> UNION {SeedRecords(k) : k \in Keys}] :
                     \A k \in Keys : st[getHistoryPropertyKey(k)] \in SeedRecords(k)}
    /\ inv = [s \in Slots |-> Idle]
    /\ served = 0
    /\ quota = FALSE
    /\ pin = <<>>
    /\ pout = NoOutput
    /\ last = NotRemembering

\* an invocation starts in the lowest slot that is not waiting for the
\* backend; without overlap, only when no invocation is waiting
CanStart(s, overlap) ==
    /\ served < MaxInvocations
    /\ inv[s].pc # "fetch"
    /\ \A t \in Slots : t < s => inv[t].pc = "fetch"
    /\ overlap \/ \A t \in Slots : inv[t].pc # "fetch"

\* the invocation that begins: began is its number among the invocations
Started(handler, event) ==
    [Idle EXCEPT !.handler = handler, !.event = event,
                 !.key = event.space.name, !.prior = store,
                 !.began = served + 1]

\* the invocation that ends: ended is the number of invocations begun by then
Finished(i, kind, w, reply) ==
    [i EXCEPT !.pc = "done", !.kind = kind, !.log = w.log, !.reply = reply,
              !.ended = IF i.pc = "fetch" THEN served ELSE served + 1]

-----------------------------------------------------------------------------
(* The handlers                                                            *)

\* lines 243-268: /newchat deletes the stored history before the turn
clearForNewChat(w, conversationKey) ==
    LET propertyKeyToClear == getHistoryPropertyKey(conversationKey)
    IN  IF propertyKeyToClear # <<>>
           /\ getProperty(w, propertyKeyToClear).kind # "none"
        THEN deleteProperty(w, propertyKeyToClear)
        ELSE w

\* handleConversationTurn up to the fetch: the invocation waits for the
\* backend, or has returned (lines 431-436, 551-570) and is finished
\* the invocation i at the end e of its turn, the backend having given r
turnFinished(i, e, r) ==
    [world |-> e.world,
     inv |-> Finished([i EXCEPT !.history = e.history, !.result = r],
                      "turn", e.world, e.reply)]

\* the turn of invocation i after turnBegin gave b: the call has returned
\* without a fetch, or the invocation waits for the backend
turnBegun(i, b, rejects) ==
    IF b.returned
    THEN turnFinished([i EXCEPT !.loaded = b.loaded, !.sent = b.sent],
                      turnEnd(b.world, i.key, b.history, b.text, rejects),
                      Result("returned", b.text))
    ELSE [world |-> b.world,
          inv |-> [i EXCEPT !.pc = "fetch", !.kind = "turn",
                            !.loaded = b.loaded, !.sent = b.sent,
                            !.contents = b.contents,
                            !.history = b.history, !.fetches = 1,
                            !.log = b.world.log]]

\* handleConversationTurn up to the fetch (lines 426-457)
startTurn(i, w, userPrompt, model, hasApiKey, rejects) ==
    IF i.key = "" \/ ~Truthy(userPrompt)
    THEN [world |-> w,
          inv |-> Finished(i, "turn", w,
                      createCardResponse(
                          <<"Error: Missing conversation key or prompt.">>,
                          NoUser))]
    ELSE turnBegun([i EXCEPT !.prompt = userPrompt, !.model = model,
                             !.hasApiKey = hasApiKey],
                   turnBegin(w, i.key, userPrompt, hasApiKey), rejects)

\* the invocation i cleared: c is what clearConversationHistory gave
cleared(i, c) == [world |-> c.world, inv |-> Finished(i, "clear", c.world, c.reply)]

\* onMessage carrying out its decision d for invocation i in world w
carryOut(i, w, d, hasApiKey, rejects) ==
    CASE d.kind = "undefined" ->
            [world |-> w, inv |-> Finished(i, "undefined", w, NoReply)]
      [] d.kind = "empty" ->
            [world |-> w, inv |-> Finished(i, "empty", w, EmptyReply)]
      [] d.kind = "card" ->
            [world |-> w,
             inv |-> Finished(i, "card", w, createCardResponse(d.text, d.viewer))]
      [] d.kind = "source" ->
            [world |-> w,
             inv |-> Finished(i, "source", w, getSourceCodeResponse(d.viewer))]
      [] d.kind = "clear" ->
            cleared(i, clearConversationHistory(w, i.key, i.event.user,
                                                i.event.space.type))
      [] d.kind = "turn" ->
            startTurn(i, IF d.newChat THEN clearForNewChat(w, i.key) ELSE w,
                      d.userPrompt, d.modelToUse, hasApiKey, rejects)

\* onMessage, up to its return or to the fetch of the turn it runs
onMessage(st, event, hasApiKey, rejects) ==
    carryOut(Started("onMessage", event), World(st), onMessageDecision(event),
             hasApiKey, rejects)

\* the step of slot s that leaves the world and the invocation of r
Becomes(s, r) ==
    /\ store' = r.world.store
    /\ inv' = [inv EXCEPT ![s] = r.inv]

\* a message event arrives and onMessage runs
OnMessage(s, event, hasApiKey, overlap) ==
    /\ CanStart(s, overlap)
    /\ Becomes(s, onMessage(store, event, hasApiKey, quota))
    /\ served' = served + 1
    /\ last' = Remembered(inv[s])
    /\ UNCHANGED <<quota, pin, pout>>

\* a turn that fetches once more when the status is not 200 or the fetch
\* throws
finishTurn_retriesOnFailure(st, i, r, rejects) ==
    IF r.site \in {"status", "exception"} /\ i.fetches < 2
    THEN [world |-> [store |-> st, log |-> i.log],
          inv |-> [i EXCEPT !.fetches = @ + 1]]
    ELSE turnFinished(i, turnEnd([store |-> st, log |-> i.log], i.key,
                                 i.history, r.text, rejects), r)

\* a turn that at its end adds its entries to what is stored by then
finishTurn_addsToStored(st, i, r, rejects) ==
    turnFinished(i, turnEnd([store |-> st, log |-> i.log], i.key,
                            (IF st[getHistoryPropertyKey(i.key)].kind = "array"
                             THEN st[getHistoryPropertyKey(i.key)].items
                             ELSE <<>>) \o <<Msg("user", i.prompt)>>,
                            r.text, rejects), r)

\* the rest of handleConversationTurn for invocation i, the backend having
\* given r (lines 459-489)
finishTurn(st, i, r, rejects) ==
    turnFinished(i, turnEnd([store |-> st, log |-> i.log], i.key, i.history,
                            r.text, rejects), r)

\* the fetch of a waiting turn returns or throws, and the turn runs to its end
FetchReturns(s, resp) ==
    /\ inv[s].pc = "fetch"
    /\ Becomes(s, finishTurn(store, [inv[s] EXCEPT !.response = resp],
                              processResponse(resp), quota))
    /\ UNCHANGED <<served, quota, pin, pout, last>>

\* a removal that only logs
onRemoveFromSpace_keepsRecord(event) == World(store)

\* onRemoveFromSpace
onRemoveFromSpace(event) ==
    LET spaceId == event.space.name
        propertyKey == getHistoryPropertyKey(spaceId)
        w == World(store)
    IN  IF spaceId # "" /\ getProperty(w, propertyKey).kind # "none"
        THEN deleteProperty(w, propertyKey)
        ELSE w

removed(i, w) == [world |-> w, inv |-> Finished(i, "removed", w, NoReply)]

OnRemoveFromSpace(s, event, overlap) ==
    /\ CanStart(s, overlap)
    /\ Becomes(s, removed(Started("onRemoveFromSpace", event),
                          onRemoveFromSpace(event)))
    /\ served' = served + 1
    /\ UNCHANGED <<quota, pin, pout, last>>

Next ==
    \/ \E s \in Slots, event \in BasicEvents, hasApiKey \in BOOLEAN :
           OnMessage(s, event, hasApiKey, FALSE)
    \/ \E s \in Slots, resp \in Responses : FetchReturns(s, resp)
    \/ \E s \in Slots, event \in RemovalEvents : OnRemoveFromSpace(s, event, FALSE)

Spec == Init /\ [][Next]_vars

\* invocations that overlap: a handler begins while a turn waits for the
\* backend (executions of a script run concurrently), on few records, events
\* and responses
OverlapRecords ==
    {NoRecord, UnparseableRecord, JSONstringify(Alt(2)),
     JSONstringify(Alt(MAX_HISTORY_LENGTH))}

OverlapEvents ==
    { MessageEvent(DmKey, Ann, 0, <<>>, <<"hello">>, <<>>),
      MessageEvent(DmKey, Ann, 0, <<>>, <<"again">>, <<>>),
      MessageEvent(DmKey, Ann, CHAT_COMMAND_ID, <<" ", "more">>, <<"/chat", " ", "more">>, <<>>),
      MessageEvent(DmKey, Ann, NEW_CHAT_COMMAND_ID, <<" ", "fresh">>,
                   <<"/newchat", " ", "fresh">>, <<>>),
      MessageEvent(DmKey, Ann, CLEAR_HISTORY_COMMAND_ID, <<>>, <<"/clearhistory">>, <<>>),
      MessageEvent(RoomKey, Ann, CHAT_COMMAND_ID, <<" ", "more">>, <<"/chat", " ", "more">>, <<>>) }

OverlapResponses ==
    { TextReply(<<"hi", "\n">>),
      TextReply(<<"yes">>),
      Response(FALSE, 500, TRUE, "", <<>>, <<"Internal error">>) }

InitOverlap ==
    /\ store \in {st \in [PropertyKeys -> OverlapRecords] :
                     st[getHistoryPropertyKey(RoomKey)] = NoRecord}
    /\ inv = [s \in Slots |-> Idle]
    /\ served = 0
    /\ quota = FALSE
    /\ pin = <<>>
    /\ pout = NoOutput
    /\ last = NotRemembering

OnMessageOverlapping(s, event, hasApiKey) == OnMessage(s, event, hasApiKey, TRUE)

NextOverlap ==
    \/ \E s \in Slots, event \in OverlapEvents, hasApiKey \in BOOLEAN :
           OnMessageOverlapping(s, event, hasApiKey)
    \/ \E s \in Slots, resp \in OverlapResponses : FetchReturns(s, resp)

SpecOverlap == InitOverlap /\ [][NextOverlap]_vars

\* the handlers on records that turns starting from an empty store leave:
\* none, answered turns up to the cap, and turns that failed (a user entry
\* without a reply) once or every time
Unanswered(n) == [i \in 1..n |-> Msg("user", <<"q">>)]

WellFormedRecords(key) ==
    IF key = DmKey
    THEN {NoRecord, JSONstringify(Alt(2)),
          JSONstringify(Alt(MAX_HISTORY_LENGTH - 1)),
          JSONstringify(Alt(MAX_HISTORY_LENGTH)),
          JSONstringify(Alt(MAX_HISTORY_LENGTH - 2) \o Unanswered(2)),
          JSONstringify(Unanswered(MAX_HISTORY_LENGTH))}
    ELSE {NoRecord, JSONstringify(Alt(2))}

InitWellFormed ==
    /\ store \in {st \in [PropertyKeys -> UNION {WellFormedRecords(k) : k \in Keys}] :
                     \A k \in Keys :
                         st[getHistoryPropertyKey(k)] \in WellFormedRecords(k)}
    /\ inv = [s \in Slots |-> Idle]
    /\ served = 0
    /\ quota = FALSE
    /\ pin = <<>>
    /\ pout = NoOutput
    /\ last = NotRemembering

SpecWellFormed == InitWellFormed /\ [][Next]_vars

\* onMessage given every kind of event, for MaxEventsHandled events
OnEvent(s, event, hasApiKey) ==
    /\ served < MaxEventsHandled
    /\ OnMessage(s, event, hasApiKey, FALSE)

NextEvents ==
    \/ \E s \in Slots, event \in MessageEvents, hasApiKey \in BOOLEAN :
           OnEvent(s, event, hasApiKey)
    \/ \E s \in Slots, resp \in Responses : FetchReturns(s, resp)

SpecEvents == Init /\ [][NextEvents]_vars

\* the handlers with a store that takes every write or rejects every write
\* (setProperty throws when a value or the store is over its size limit)
StorageRecords ==
    {NoRecord, UnparseableRecord, JSONstringify(Alt(2))}

InitStorage ==
    /\ store \in {st \in [PropertyKeys -> StorageRecords] :
                     st[getHistoryPropertyKey(RoomKey)] = NoRecord}
    /\ inv = [s \in Slots |-> Idle]
    /\ served = 0
    /\ quota \in BOOLEAN
    /\ pin = <<>>
    /\ pout = NoOutput
    /\ last = NotRemembering

SpecStorage == InitStorage /\ [][NextEvents]_vars

\* UrlFetchApp.fetch is a synchronous call: it returns a response or throws
Returns == \E s \in Slots, resp \in Responses : FetchReturns(s, resp)

SpecStorageFair == SpecStorage /\ WF_vars(Returns)

\* onMessage given an event while no pair of invocations is kept yet
OnEventOnceMore(s, event, hasApiKey) ==
    /\ ~last.seen
    /\ OnMessage(s, event, hasApiKey, FALSE)

NextRemembering ==
    \/ \E s \in Slots, event \in MessageEvents, hasApiKey \in BOOLEAN :
           OnEventOnceMore(s, event, hasApiKey)
    \/ \E s \in Slots, resp \in Responses : FetchReturns(s, resp)
    \/ \E s \in Slots, event \in RemovalEvents : OnRemoveFromSpace(s, event, FALSE)

\* the handlers on fewer stored records, each onMessage invocation kept
\* until the next one, up to the second
InitRemembering ==
    /\ store \in [PropertyKeys -> {NoRecord, JSONstringify(Alt(2))}]
    /\ inv = [s \in Slots |-> Idle]
    /\ served = 0
    /\ quota = FALSE
    /\ pin = <<>>
    /\ pout = NoOutput
    /\ last = NothingYet

SpecRemembering == InitRemembering /\ [][NextRemembering]_vars

-----------------------------------------------------------------------------
(* pruneHistory and filterAndPrepareHistory on their own: the initial      *)
(* state draws a history, a step applies one of the two functions to it.   *)
(* The histories are every sequence of at most MaxPureLen entries, well    *)
(* formed or not, alone or followed by a long alternating tail.            *)

PureTexts == {<<"x">>, <<"y">>, <<>>}

PureEntries ==
    {Msg(r, t) : r \in {"user", "model"}, t \in PureTexts}
    \cup {[role |-> "", noParts |-> FALSE, parts |-> << <<"x">> >>],
          [role |-> "user", noParts |-> TRUE, parts |-> <<>>],
          [role |-> "model", noParts |-> FALSE, parts |-> <<>>]}

PureHeads == UNION {[1..n -> PureEntries] : n \in 0..MaxPureLen}

PureTails ==
    {<<>>, Alt(MAX_HISTORY_LENGTH - 2), Alt(MAX_HISTORY_LENGTH - 1),
     Alt(MAX_HISTORY_LENGTH),
     Tail(Alt(MAX_HISTORY_LENGTH + 1))}

PureHistories == {h \o t : h \in PureHeads, t \in PureTails}

InitPure ==
    /\ store = [pk \in PropertyKeys |-> NoRecord]
    /\ inv = [s \in Slots |-> Idle]
    /\ served = 0
    /\ quota = FALSE
    /\ pin \in PureHistories
    /\ pout = NoOutput
    /\ last = NotRemembering

Pruned(history) ==
    [fn |-> "pruneHistory", history |-> history, needs |-> FALSE, after |-> pin]

ApplyPrune ==
    /\ pout.fn = ""
    /\ pout' = Pruned(pruneHistory(pin))
    /\ UNCHANGED <<store, inv, served, quota, pin, last>>

Prepared(f) ==
    [fn |-> "filterAndPrepareHistory", history |-> f.filteredHistory,
     needs |-> f.needsLeadingUserRole, after |-> f.history]

ApplyFilter ==
    /\ pout.fn = ""
    /\ pout' = Prepared(filterAndPrepareHistory(pin))
    /\ UNCHANGED <<store, inv, served, quota, pin, last>>

NextPure == ApplyPrune \/ ApplyFilter

SpecPure == InitPure /\ [][NextPure]_vars

-----------------------------------------------------------------------------
(* Properties of pruneHistory and filterAndPrepareHistory (SpecPure)       *)

\* every entry is a message {role, parts: [{text}]} of a user or the model
IsHistory(h) ==
    \A i \in 1..Len(h) :
        h[i].role \in {"user", "model"} /\ ~h[i].noParts /\ Len(h[i].parts) = 1

NoAdjacentModels(h) ==
    \A i \in 1..(Len(h) - 1) : ~(h[i].role = "model" /\ h[i + 1].role = "model")

NoAdjacentEqualRoles(h) ==
    \A i \in 1..(Len(h) - 1) : h[i].role # h[i + 1].role

LeadsWithUser(h) == h # <<>> => h[1].role = "user"

LastOf(h, n) == SubSeq(h, Len(h) - n + 1, Len(h))

C2_FilteredAlternatesAndFlagsLead ==
    pout.fn = "filterAndPrepareHistory" =>
        /\ NoAdjacentEqualRoles(pout.history)
        /\ pout.needs <=> (pout.history = <<>> \/ pout.history[1].role # "user")

\* entries were merged and the filtered history leads with a model entry
C2_Witness ==
    /\ pout.fn = "filterAndPrepareHistory"
    /\ Len(pout.history) >= 2
    /\ Len(pout.history) < Len(pin)
    /\ pout.history[1].role = "model"
    /\ pout.needs

\* the texts of each run of entries of one role, joined by newlines in order
RECURSIVE JoinedRuns(_)
JoinedRuns(h) ==
    IF h = <<>> THEN <<>>
    ELSE LET rest == JoinedRuns(Tail(h))
         IN  IF rest # <<>> /\ rest[1].role = Head(h).role
             THEN <<Msg(Head(h).role,
                        Head(h).parts[1] \o <<"\n">> \o rest[1].parts[1])>>
                  \o Tail(rest)
             ELSE <<Head(h)>> \o rest

NoEmptyText(h) == \A i \in 1..Len(h) : TextOf(h[i]) # <<>>

\* C3 as claimed: every run of entries of one role becomes one entry whose
\* text is the texts of the run, in order, with one newline between each
\* two.
C3_RunsJoinedByNewlines ==
    (pout.fn = "filterAndPrepareHistory" /\ IsHistory(pin)) =>
        pout.history = JoinedRuns(pin)

\* C3 as amended: that holds when no entry has an empty text (an entry
\* with an empty text that follows an entry of its role is skipped, and
\* no newline is added for it).
C3_RunsOfNonEmptyTextsJoinedByNewlines ==
    (pout.fn = "filterAndPrepareHistory" /\ IsHistory(pin) /\ NoEmptyText(pin)) =>
        pout.history = JoinedRuns(pin)

\* three user entries with the texts x, y, x merged into one entry
C3_Witness ==
    /\ pout.fn = "filterAndPrepareHistory"
    /\ Len(pin) = 3
    /\ IsHistory(pin)
    /\ \A i \in 1..3 : pin[i].role = "user"
    /\ pin[1].parts[1] = <<"x">> /\ pin[2].parts[1] = <<"y">>
    /\ pin[3].parts[1] = <<"x">>
    /\ Len(pout.history) = 1
    /\ pout.history[1].parts[1] = <<"x", "\n", "y", "\n", "x">>

-----------------------------------------------------------------------------
(* Properties of the handlers (Spec)                                       *)

PropertyKeyOf(s) == getHistoryPropertyKey(inv[s].key)

\* slot s holds a turn whose fetch was issued or which has ended
InTurn(s) == inv[s].kind = "turn" /\ inv[s].pc \in {"fetch", "done"}

\* slot s holds a turn that has ended
TurnDone(s) == inv[s].kind = "turn" /\ inv[s].pc = "done"

\* the turn of slot s ended with a text of the backend (line 726)
Succeeded(s) == TurnDone(s) /\ inv[s].result.site = "text"

\* the turn of slot s ended with a failure message of callGeminiApiWithHistory
Failed(s) == TurnDone(s) /\ inv[s].result.site \notin {"", "text"}

IsNewChat(s) == inv[s].event.slashCommand = NEW_CHAT_COMMAND_ID

\* C4 as claimed: a turn that loaded an empty history and got the
\* non-empty text t from the backend leaves exactly the user entry and the
\* model entry with t in the store.
C4_SuccessStoresUserAndModel ==
    \A s \in Slots :
        (Succeeded(s) /\ inv[s].loaded = <<>> /\ Truthy(inv[s].result.text)) =>
            store[PropertyKeyOf(s)] =
                JSONstringify(<<Msg("user", inv[s].prompt),
                                Msg("model", inv[s].result.text)>>)

\* C5: after a failed turn the stored history is the one handed to the
\* backend call, role by role (no model entry added), its last entry is the
\* user message of the turn, and the reply is the failure message.
C5_FailureKeepsUserMessageOnly ==
    \A s \in Slots :
        Failed(s) =>
            /\ store[PropertyKeyOf(s)] = JSONstringify(inv[s].history)
            /\ Roles(inv[s].history) = Roles(inv[s].sent)
            /\ inv[s].history # <<>>
            /\ inv[s].history[Len(inv[s].history)] = Msg("user", inv[s].prompt)
            /\ inv[s].reply.kind = "card"
            /\ inv[s].reply.text = inv[s].result.text

\* a turn on a stored conversation was blocked by the safety filters
C5_Witness ==
    \E s \in Slots :
        /\ Failed(s)
        /\ inv[s].result.site = "blocked"
        /\ Len(inv[s].loaded) = 2
        /\ Len(store[PropertyKeyOf(s)].items) = 3
        /\ inv[s].reply.text =
               <<"Sorry,", " your request was blocked by safety filters (Reason: ",
                 "SAFETY", ").">>

\* C6: the history a turn hands to callGeminiApiWithHistory, the history
\* it saves and every stored history have at most MAX_HISTORY_LENGTH
\* entries.
C6_HistoriesWithinCap ==
    /\ \A s \in Slots :
           InTurn(s) =>
               /\ Len(inv[s].sent) <= MAX_HISTORY_LENGTH
               /\ Len(inv[s].history) <= MAX_HISTORY_LENGTH
    /\ \A pk \in PropertyKeys : Len(store[pk].items) <= MAX_HISTORY_LENGTH

\* a turn that sent a full history and pruned after the model's reply
C6_Witness ==
    \E s \in Slots :
        /\ Succeeded(s)
        /\ Len(inv[s].loaded) = MAX_HISTORY_LENGTH - 1
        /\ Len(inv[s].sent) = MAX_HISTORY_LENGTH
        /\ Len(store[PropertyKeyOf(s)].items) = MAX_HISTORY_LENGTH - 1

\* C7: the contents of every payload sent are not empty, begin with a user
\* entry and have no two adjacent entries of one role.
C7_ContentsLeadWithUserAndAlternate ==
    \A s \in Slots :
        inv[s].fetches = 1 =>
            /\ inv[s].contents # <<>>
            /\ inv[s].contents[1].role = "user"
            /\ NoAdjacentEqualRoles(inv[s].contents)

\* a payload that begins with the placeholder, before a model entry
C7_Witness ==
    \E s \in Slots :
        /\ inv[s].fetches = 1
        /\ Len(inv[s].contents) = 3
        /\ inv[s].contents[1] = Placeholder
        /\ inv[s].contents[2].role = "model"

\* the same invocation as that of slot s on a store without a record for
\* its key: the world and the invocation it ends with
OnFreshKey(s) ==
    LET pk == PropertyKeyOf(s)
        b == onMessage([inv[s].prior EXCEPT ![pk] = NoRecord], inv[s].event,
                       inv[s].result.site # "returned", quota)
    IN  IF b.inv.pc = "fetch"
        THEN finishTurn(b.world.store, b.inv, inv[s].result, quota)
        ELSE b

Damaged == {"empty", "unparseable", "nonarray"}

\* C8 as claimed: a turn that finds a record that does not parse, or is no
\* array, loads an empty history and deletes the record, and ends with the
\* stored history and the reply it would end with had there been no record.
C8_DamagedRecordDeletedByLoad ==
    \A s \in Slots :
        (InTurn(s) /\ ~IsNewChat(s)
         /\ inv[s].prior[PropertyKeyOf(s)].kind \in Damaged) =>
            /\ inv[s].loaded = <<>>
            /\ inv[s].log # <<>>
            /\ inv[s].log[1] = <<"delete", PropertyKeyOf(s)>>
            /\ inv[s].pc = "done" =>
                   /\ store[PropertyKeyOf(s)] = OnFreshKey(s).world.store[PropertyKeyOf(s)]
                   /\ inv[s].reply = OnFreshKey(s).inv.reply

\* C9: clearing deletes the record of the key and says so when there is
\* one, deletes nothing and says that none was found when there is none;
\* either way no fetch is issued and the key is left without a record.
C9_ClearDeletesOrReportsNone ==
    \A s \in Slots :
        (inv[s].pc = "done" /\ inv[s].kind = "clear") =>
            LET pk == PropertyKeyOf(s)
                location == IF inv[s].event.space.type = "DM" THEN "DM" ELSE "space"
            IN  /\ inv[s].fetches = 0
                /\ store[pk] = NoRecord
                /\ \A k \in PropertyKeys \ {pk} : store[k] = inv[s].prior[k]
                /\ inv[s].prior[pk] # NoRecord =>
                       /\ inv[s].log = << <<"delete", pk>> >>
                       /\ inv[s].reply.text =
                              <<"Conversation history for this ", location,
                                " has been cleared by ",
                                inv[s].event.user.displayName, ".">>
                /\ inv[s].prior[pk] = NoRecord =>
                       /\ inv[s].log = <<>>
                       /\ inv[s].reply.text =
                              <<"No conversation history found for this ",
                                location, " to clear.">>

\* a stored conversation was cleared
C9_Witness ==
    \E s \in Slots :
        /\ inv[s].pc = "done" /\ inv[s].kind = "clear"
        /\ inv[s].prior[PropertyKeyOf(s)].kind = "array"
        /\ inv[s].log = << <<"delete", PropertyKeyOf(s)>> >>
        /\ store[PropertyKeyOf(s)] = NoRecord

\* C10 as claimed: whatever was stored, /newchat with a prompt sends the
\* user entry of the prompt alone, and after a non-empty text of the
\* backend the stored history is that entry and the model entry.
C10_NewChatStartsFromEmpty ==
    \A s \in Slots :
        (InTurn(s) /\ IsNewChat(s)) =>
            /\ inv[s].loaded = <<>>
            /\ inv[s].fetches = 1 =>
                   inv[s].contents = <<Msg("user", inv[s].prompt)>>
            /\ (Succeeded(s) /\ Truthy(inv[s].result.text)) =>
                   store[PropertyKeyOf(s)] =
                       JSONstringify(<<Msg("user", inv[s].prompt),
                                       Msg("model", inv[s].result.text)>>)

-----------------------------------------------------------------------------
(* Properties of what onMessage makes of an event                          *)

\* slot s holds an invocation of onMessage for a message event
OfMessage(s) ==
    /\ inv[s].handler = "onMessage"
    /\ inv[s].event.type = "MESSAGE" /\ inv[s].event.hasMessage

\* the invocation of slot s returned nothing, wrote nothing and fetched
\* nothing
Ignored(s) ==
    /\ inv[s].pc = "done"
    /\ inv[s].kind = "undefined"
    /\ inv[s].reply = NoReply
    /\ inv[s].log = <<>>
    /\ store = inv[s].prior
    /\ inv[s].fetches = 0

\* the event carries an annotation that mentions the bot
MentionsBot(event) ==
    \E n \in 1..Len(event.annotations) :
        /\ event.annotations[n].type = "USER_MENTION"
        /\ event.annotations[n].name = BOT_USER_ID

\* C11: a message of a room that is no slash command and mentions the bot
\* in no annotation is ignored: no reply, no write to any property, no
\* fetch.
C11_UnmentionedRoomMessageIgnored ==
    \A s \in Slots :
        (/\ OfMessage(s)
         /\ inv[s].event.space.type = "ROOM"
         /\ inv[s].event.slashCommand = 0
         /\ ~MentionsBot(inv[s].event)) => Ignored(s)

\* a room with a stored history got a message that mentions somebody else
C11_Witness ==
    \E s \in Slots :
        /\ OfMessage(s) /\ inv[s].pc = "done"
        /\ inv[s].event.space.type = "ROOM"
        /\ inv[s].event.text = <<"@bob", " ", "hello">>
        /\ inv[s].event.annotations # <<>>
        /\ store[PropertyKeyOf(s)] = JSONstringify(Alt(2))

\* the words onMessage puts before the prompt of a user with a display name
Preamble(user) ==
    <<"Message from ", user.displayName,
      ". Please ignore this unless prompting about past conversations. ">>

\* the annotations of the event that mention the bot and carry offsets
LocatedMentions(event) ==
    {n \in 1..Len(event.annotations) :
        /\ event.annotations[n].type = "USER_MENTION"
        /\ event.annotations[n].name = BOT_USER_ID
        /\ event.annotations[n].hasRange}

\* the text strictly after the end of the first of them, trimmed; empty
\* when there is none
AfterFirstMention(event) ==
    IF LocatedMentions(event) = {} THEN <<>>
    ELSE LET n == CHOOSE m \in LocatedMentions(event) :
                      \A k \in LocatedMentions(event) : m <= k
             end == event.annotations[n].startIndex + event.annotations[n].length
         IN  Trim(SubSeq(event.text, end + 1, Len(event.text)))

\* the text is one of those onMessage treats as a command or a prefix
IsCommandWord(t) ==
    \/ t = <<>>
    \/ t[1] \in {"use pro.", "Use pro.", "USE PRO."}
    \/ t \in {<<"clearhistory">>, <<"ClearHistory">>}

\* a free-text message of a person that mentions the bot
MentionedFreeText(s) ==
    /\ OfMessage(s)
    /\ inv[s].event.slashCommand = 0
    /\ inv[s].event.user.type # "BOT"
    /\ MentionsBot(inv[s].event)

\* C12: when the bot is mentioned, the prompt is the trimmed text after the
\* end (startIndex + length) of the first annotation that mentions the bot
\* and carries offsets, whatever precedes it and whatever other mentions
\* follow; when no such annotation exists or nothing follows it, the prompt
\* is empty and the message is ignored.
C12_PromptIsTextAfterFirstMention ==
    \A s \in Slots :
        MentionedFreeText(s) =>
            /\ AfterFirstMention(inv[s].event) = <<>> => Ignored(s)
            /\ ~IsCommandWord(AfterFirstMention(inv[s].event)) =>
                   /\ inv[s].kind = "turn"
                   /\ inv[s].prompt = Preamble(inv[s].event.user)
                                          \o AfterFirstMention(inv[s].event)

\* a message that mentions the bot twice, after a word: the turn got the
\* text between and after the mentions
C12_Witness ==
    \E s \in Slots :
        /\ MentionedFreeText(s)
        /\ Len(inv[s].event.annotations) = 2
        /\ inv[s].event.annotations[2].name = BOT_USER_ID
        /\ inv[s].event.annotations[1].name = BOT_USER_ID
        /\ inv[s].event.annotations[1].hasRange
        /\ inv[s].kind = "turn"
        /\ inv[s].prompt = Preamble(Ann) \o <<"hello", " ", "@bot", " ", "again">>

\* C13 as claimed: a message event written by a participant of type BOT is
\* ignored whatever it carries, free text, a mention of the bot or a slash
\* command: no reply, no write to any property, no fetch.
C13_BotAuthoredMessagesIgnored ==
    \A s \in Slots :
        (OfMessage(s) /\ inv[s].event.user.type = "BOT") => Ignored(s)

\* a free-text message of a person that onMessage takes up: in a direct
\* conversation, or mentioning the bot
FreeText(s) ==
    /\ OfMessage(s)
    /\ inv[s].event.slashCommand = 0
    /\ inv[s].event.user.type # "BOT"
    /\ inv[s].event.text # <<>>
    /\ inv[s].event.space.type = "DM" \/ MentionsBot(inv[s].event)

\* the candidate prompt of a free-text message: the text after the mention
\* when the bot is mentioned, the trimmed text otherwise
CandidatePrompt(event) ==
    IF MentionsBot(event) THEN AfterFirstMention(event) ELSE Trim(event.text)

ProPrefixes == {"use pro.", "Use pro.", "USE PRO."}

\* the candidate prompt without a leading "use pro."
WithoutProPrefix(c) ==
    IF c # <<>> /\ c[1] \in ProPrefixes THEN Trim(Tail(c)) ELSE c

\* the invocation of slot s cleared the history of its key and fetched
\* nothing
Cleared(s) ==
    /\ inv[s].pc = "done"
    /\ inv[s].kind = "clear"
    /\ inv[s].fetches = 0
    /\ store[PropertyKeyOf(s)] = NoRecord

\* C14 as claimed: a candidate prompt that is, in any case of letters, the
\* two words "clear history" clears the history of the key without a
\* backend call.
C14_ClearHistoryWordsClear ==
    \A s \in Slots :
        (/\ FreeText(s)
         /\ CandidatePrompt(inv[s].event)
                \in {<<"clear", " ", "history">>, <<"Clear", " ", "History">>})
            => Cleared(s)

\* C14: a candidate prompt that is, in any case of letters and after a
\* leading "use pro." is removed, the one word "clearhistory" clears the
\* history of the key without a backend call, in a direct conversation and
\* for a mentioned message in a room alike.
C14_ClearhistoryWordClears ==
    \A s \in Slots :
        (/\ FreeText(s)
         /\ WithoutProPrefix(CandidatePrompt(inv[s].event))
                \in {<<"clearhistory">>, <<"ClearHistory">>})
            => Cleared(s)

\* a room with a stored history was cleared by a message that mentions the
\* bot and says ClearHistory
C14_Witness ==
    \E s \in Slots :
        /\ FreeText(s) /\ Cleared(s)
        /\ inv[s].event.space.type = "ROOM"
        /\ CandidatePrompt(inv[s].event) = <<"ClearHistory">>
        /\ inv[s].prior[PropertyKeyOf(s)].kind = "array"
        /\ inv[s].log = << <<"delete", PropertyKeyOf(s)>> >>

\* C15: a turn for free text uses the pro model exactly when the candidate
\* prompt begins with "use pro." in any case of letters, and then its
\* prompt is the rest, trimmed; otherwise it uses the standard model and
\* the candidate prompt as it is.  A turn for a slash command uses the pro
\* model exactly when the command is /pro, and its prompt is the trimmed
\* argument text whatever it begins with.
C15_ProModelByPrefixOrProCommand ==
    \A s \in Slots :
        (OfMessage(s) /\ inv[s].kind = "turn") =>
            /\ FreeText(s) =>
                   LET c == CandidatePrompt(inv[s].event)
                   IN  IF c[1] \in ProPrefixes
                       THEN /\ inv[s].model = GEMINI_PRO_MODEL
                            /\ inv[s].prompt = Preamble(inv[s].event.user)
                                                   \o Trim(Tail(c))
                       ELSE /\ inv[s].model = GEMINI_MODEL
                            /\ inv[s].prompt = Preamble(inv[s].event.user) \o c
            /\ inv[s].event.slashCommand # 0 =>
                   /\ inv[s].model = GEMINI_PRO_MODEL
                          <=> inv[s].event.slashCommand = PRO_COMMAND_ID
                   /\ inv[s].prompt = Preamble(inv[s].event.user)
                                          \o Trim(inv[s].event.argumentText)

\* a direct message that begins with "Use pro." was sent to the pro model
\* without the prefix
C15_Witness ==
    \E s \in Slots :
        /\ FreeText(s) /\ inv[s].kind = "turn" /\ inv[s].fetches = 1
        /\ inv[s].event.text = <<"Use pro.", " ", "hello">>
        /\ inv[s].model = GEMINI_PRO_MODEL
        /\ inv[s].contents[Len(inv[s].contents)]
               = Msg("user", Preamble(Ann) \o <<"hello">>)

\* C16: a free-text message whose prompt is empty after the text behind
\* the mention is taken, a leading "use pro." is removed and the rest is
\* trimmed is ignored, in a direct conversation and in a room: no reply, no
\* write to any property, no fetch.
C16_EmptyPromptIgnored ==
    \A s \in Slots :
        (/\ OfMessage(s)
         /\ inv[s].event.slashCommand = 0
         /\ WithoutProPrefix(CandidatePrompt(inv[s].event)) = <<>>)
            => Ignored(s)

\* a direct conversation with a stored history got the prefix "use pro."
\* and nothing else
C16_Witness ==
    \E s \in Slots :
        /\ FreeText(s) /\ inv[s].pc = "done"
        /\ inv[s].event.space.type = "DM"
        /\ inv[s].event.text = <<"use pro.", " ">>
        /\ store[PropertyKeyOf(s)] = JSONstringify(Alt(2))

\* the reply of /chat, /pro and /newchat without a message
UsageMessage(commandId) ==
    CASE commandId = CHAT_COMMAND_ID ->
             <<"Please provide your message after the /chat command.">>
      [] commandId = PRO_COMMAND_ID ->
             <<"Please provide your message after the /pro command.">>
      [] commandId = NEW_CHAT_COMMAND_ID ->
             <<"Please provide your starting message after the /newchat command.">>

\* C17: /chat, /pro and /newchat with an empty or blank argument text
\* reply with their usage message and end there: no turn, no fetch, and
\* every property as it was, the history of the key included.
C17_EmptyArgumentGivesUsageOnly ==
    \A s \in Slots :
        (/\ OfMessage(s)
         /\ inv[s].event.slashCommand
                \in {CHAT_COMMAND_ID, PRO_COMMAND_ID, NEW_CHAT_COMMAND_ID}
         /\ inv[s].event.argumentText \in {<<>>, <<" ">>}) =>
            /\ inv[s].pc = "done"
            /\ inv[s].kind = "card"
            /\ inv[s].reply.kind = "card"
            /\ inv[s].reply.text = UsageMessage(inv[s].event.slashCommand)
            /\ inv[s].fetches = 0
            /\ inv[s].log = <<>>
            /\ store = inv[s].prior

\* /newchat without a message on a stored history, which is still there
C17_Witness ==
    \E s \in Slots :
        /\ OfMessage(s) /\ inv[s].pc = "done"
        /\ inv[s].event.slashCommand = NEW_CHAT_COMMAND_ID
        /\ inv[s].event.argumentText = <<>>
        /\ inv[s].reply.kind = "card"
        /\ store[PropertyKeyOf(s)] = JSONstringify(Alt(2))

\* C18: onMessage ignores every event whose type is not MESSAGE, whatever
\* it carries: no reply, no write to any property, no fetch.
C18_OtherEventTypesIgnored ==
    \A s \in Slots :
        (inv[s].handler = "onMessage" /\ inv[s].event.type # "MESSAGE")
            => Ignored(s)

\* an event of another type that carries the /chat command and a message,
\* on a stored history
C18_Witness ==
    \E s \in Slots :
        /\ inv[s].handler = "onMessage" /\ inv[s].pc = "done"
        /\ inv[s].event.type = "CARD_CLICKED"
        /\ inv[s].event.hasMessage
        /\ inv[s].event.slashCommand = CHAT_COMMAND_ID
        /\ store[PropertyKeyOf(s)] = JSONstringify(Alt(2))

-----------------------------------------------------------------------------
(* Properties of the reading of the backend's response                     *)

\* the turn of slot s has ended after a fetch that returned a response
\* whose body parses
Answered(s) ==
    /\ TurnDone(s) /\ inv[s].fetches = 1
    /\ ~inv[s].response.throws /\ inv[s].response.parses

\* the result of the turn of slot s is that of the first check that
\* matches its response: block reason, no candidates, finish reason, and
\* only then the text of the candidate
FirstMatchDecides(s) ==
    LET resp == inv[s].response
        r == inv[s].result
    IN  IF resp.blockReason # ""
        THEN /\ r.site = "blocked"
             /\ r.text = <<"Sorry,",
                            " your request was blocked by safety filters (Reason: ",
                            resp.blockReason, ").">>
        ELSE IF resp.candidates = <<>>
        THEN /\ r.site = "noCandidates"
             /\ r.text = <<"Sorry,",
                            " the AI returned an unexpected response structure (no candidates).">>
        ELSE IF resp.candidates[1].finishReason \notin {"", "STOP", "MAX_TOKENS"}
        THEN /\ r.site = "finishReason"
             /\ r.text[2] = " the response generation was stopped "
        ELSE r.site \in {"text", "functionCall", "noText"}

\* C20 as claimed: for every response with a status from 200 to 299 the
\* checks run in order and the first that matches decides.
C20_ChecksInOrderOn2xx ==
    \A s \in Slots :
        (Answered(s) /\ inv[s].response.code \in 200..299) => FirstMatchDecides(s)

\* C20: for every response with status 200 whose body parses the checks
\* run in order and the first that matches decides: a block reason gives
\* the blocked message even with a candidate that has text, else no
\* candidate gives the unexpected-structure message, else a finish reason
\* other than STOP and MAX_TOKENS gives the stopped message even with
\* text, and only else is the text looked for.
C20_ChecksInOrderOn200 ==
    \A s \in Slots :
        (Answered(s) /\ inv[s].response.code = 200) => FirstMatchDecides(s)

\* a response with a block reason and a candidate that has text: blocked
C20_Witness ==
    \E s \in Slots :
        /\ Answered(s) /\ inv[s].response.code = 200
        /\ inv[s].response.blockReason = "SAFETY"
        /\ inv[s].response.candidates # <<>>
        /\ inv[s].response.candidates[1].parts[1].text = <<"hi">>
        /\ inv[s].result.site = "blocked"
        /\ inv[s].reply.text = inv[s].result.text

\* the response of the turn of slot s passed the checks before the text:
\* status 200, no block reason, a candidate, no abnormal finish reason
PassedChecks(s) ==
    /\ Answered(s) /\ inv[s].response.code = 200
    /\ inv[s].response.blockReason = ""
    /\ inv[s].response.candidates # <<>>
    /\ inv[s].response.candidates[1].finishReason \in {"", "STOP", "MAX_TOKENS"}

\* the parts of the first candidate; none when content.parts is absent
PartsOf(resp) ==
    IF resp.candidates[1].hasParts THEN resp.candidates[1].parts ELSE <<>>

\* the indices of the parts that are not marked as thought
NonThoughts(parts) == {k \in 1..Len(parts) : ~parts[k].thought}

FirstNonThought(parts) ==
    CHOOSE k \in NonThoughts(parts) : \A j \in NonThoughts(parts) : k <= j

\* C21: when no earlier check matches, the result is a text exactly when
\* there is a part not marked as thought and the first such part has text,
\* and the text is that part's, trimmed; otherwise (thoughts only, parts
\* absent or empty, first such part without text) the result is a failure
\* message and never a text.
C21_TextOfFirstNonThoughtPart ==
    \A s \in Slots :
        PassedChecks(s) =>
            LET parts == PartsOf(inv[s].response)
            IN  IF /\ NonThoughts(parts) # {}
                   /\ parts[FirstNonThought(parts)].text # <<>>
                THEN /\ inv[s].result.site = "text"
                     /\ inv[s].result.text
                            = Trim(parts[FirstNonThought(parts)].text)
                ELSE /\ inv[s].result.site \in {"noText", "functionCall"}
                     /\ inv[s].result.text[1] = "Sorry,"
                     /\ inv[s].reply.text = inv[s].result.text

\* a response whose first part is a thought and whose second part has
\* text with white space around it: the text, trimmed, was stored
C21_Witness ==
    \E s \in Slots :
        /\ PassedChecks(s)
        /\ Len(PartsOf(inv[s].response)) = 2
        /\ PartsOf(inv[s].response)[1].thought
        /\ PartsOf(inv[s].response)[2].text = <<" ", "hi", " ">>
        /\ inv[s].result = Result("text", <<"hi">>)
        /\ inv[s].history[Len(inv[s].history)] = Msg("model", <<"hi">>)

\* slot s takes a step
Steps(s) == inv'[s] # inv[s]

\* C22: a turn makes one call to the backend and never a second: the step
\* that begins a turn either makes the one call and waits, or returns
\* without a call (no API key); whatever the call gives, the next step of
\* the turn ends it, with that one call made and a reply.
C22_OneCallNoRetry ==
    [][\A s \in Slots :
        /\ (Steps(s) /\ inv[s].pc # "fetch" /\ inv'[s].kind = "turn") =>
               \/ /\ inv'[s].pc = "fetch" /\ inv'[s].fetches = 1
                  /\ inv'[s].response = NoResponse
               \/ /\ inv'[s].pc = "done" /\ inv'[s].fetches = 0
                  /\ inv'[s].result.site = "returned"
        /\ (Steps(s) /\ inv[s].pc = "fetch") =>
               /\ inv'[s].pc = "done" /\ inv'[s].fetches = 1
               /\ inv'[s].response # NoResponse
               /\ inv'[s].reply.kind = "card"]_vars

\* turns that ended after a status 500, after a fetch that threw and after
\* a blocked prompt, with one call each
C22_Witness ==
    \E s \in Slots :
        /\ TurnDone(s) /\ inv[s].fetches = 1
        /\ inv[s].result.site \in {"status", "exception", "blocked"}
        /\ inv[s].reply.text = inv[s].result.text

\* the string returned when GEMINI_API_KEY is not set (line 554)
KeyNotSetMessage == <<"ERROR:", " GEMINI_API_KEY script property not set.">>

\* C23: without the API key the call returns the fixed message and fetches
\* nothing; the turn has ended with that message as its reply, never
\* waiting for the backend.
C23_NoKeyNoCallFixedReply ==
    \A s \in Slots :
        (inv[s].kind = "turn" /\ ~inv[s].hasApiKey) =>
            /\ inv[s].pc = "done"
            /\ inv[s].fetches = 0 /\ inv[s].response = NoResponse
            /\ inv[s].result = Result("returned", KeyNotSetMessage)
            /\ inv[s].reply.kind = "card"
            /\ inv[s].reply.text = KeyNotSetMessage

\* a turn without the API key has ended with the fixed message
C23_Witness ==
    \E s \in Slots :
        /\ TurnDone(s) /\ ~inv[s].hasApiKey
        /\ inv[s].fetches = 0
        /\ inv[s].reply.text = KeyNotSetMessage

\* C24: every key has its own record: the keys of distinct conversations
\* are distinct (the name and the suffix _history), and a step of a handler
\* (a turn up to the fetch or from it, a clearing, a new chat, a removal,
\* the deletion of a damaged record) changes no record but that of the
\* conversation of its event.
C24_OtherKeysUntouched ==
    [][/\ \A k1, k2 \in Keys :
              k1 # k2 => getHistoryPropertyKey(k1) # getHistoryPropertyKey(k2)
       /\ \A k \in Keys : getHistoryPropertyKey(k) = <<k, "_history">>
       /\ \A s \in Slots :
              Steps(s) =>
                  \A pk \in PropertyKeys :
                      pk[1] # inv'[s].event.space.name => store'[pk] = store[pk]
      ]_vars

\* an invocation for the direct conversation changed its record while the
\* record of the room, two entries, is as it was
C24_Witness ==
    \E s \in Slots :
        /\ inv[s].pc = "done" /\ inv[s].key = DmKey
        /\ inv[s].kind \in {"turn", "clear", "removed"}
        /\ store[<<DmKey, "_history">>] # inv[s].prior[<<DmKey, "_history">>]
        /\ store[<<RoomKey, "_history">>] = JSONstringify(Alt(2))
        /\ inv[s].prior[<<RoomKey, "_history">>] = JSONstringify(Alt(2))

\* C32 as claimed: the call to the backend works on copies: every entry of
\* the history a turn handed to callGeminiApiWithHistory has after the call
\* the text it had before it, and so has every entry the turn stores.
C32_CallKeepsEntryTexts ==
    \A s \in Slots :
        (InTurn(s) /\ inv[s].fetches = 1) =>
            /\ Len(inv[s].history) >= Len(inv[s].sent)
            /\ \A n \in 1..Len(inv[s].sent) :
                   TextOf(inv[s].history[n]) = TextOf(inv[s].sent[n])

\* slot s holds a turn of handleConversationTurn alone (no /newchat reset
\* before it) on a key with no record or a record that parses to an array
PlainTurn(s) ==
    /\ InTurn(s) /\ ~IsNewChat(s)
    /\ inv[s].prior[PropertyKeyOf(s)].kind \in {"none", "array"}

\* C35: a turn on a well-formed record changes the store once, by the save
\* at its end: while it waits for the backend it has called neither
\* setProperty nor deleteProperty and the record of its key is what it was
\* when the turn began; when it has ended it has made one call, the
\* setProperty of its save.
C35_OneSaveAfterTheCall ==
    \A s \in Slots :
        PlainTurn(s) =>
            /\ inv[s].pc = "fetch" =>
                   /\ inv[s].log = <<>>
                   /\ store[PropertyKeyOf(s)] = inv[s].prior[PropertyKeyOf(s)]
            /\ inv[s].pc = "done" =>
                   /\ inv[s].log = <<<<"set", PropertyKeyOf(s)>>>>
                   /\ store[PropertyKeyOf(s)] = JSONstringify(inv[s].history)

\* a turn waits for the backend with its user message pushed, and the
\* record still holds the two entries it held before
C35_Witness ==
    \E s \in Slots :
        /\ PlainTurn(s) /\ inv[s].pc = "fetch"
        /\ inv[s].loaded = Alt(2) /\ Len(inv[s].sent) = 3
        /\ store[PropertyKeyOf(s)] = JSONstringify(Alt(2))
        /\ inv[s].log = <<>>

-----------------------------------------------------------------------------
(* Properties of the handlers on well-formed records (SpecWellFormed)      *)

\* the record r holds a history that is not empty, begins with a user entry
\* and has no two adjacent model entries
WellFormed(r) ==
    /\ r.kind = "array" /\ r.items # <<>>
    /\ r.items[1].role = "user"
    /\ NoAdjacentModels(r.items)

\* C33: with records that turns left, after any turns, successful or
\* failed, clearings, new chats and removals, every key has no record or a
\* history that is not empty, begins with a user entry and has no two
\* adjacent model entries.
C33_StoredHistoriesWellFormed ==
    \A pk \in PropertyKeys : store[pk] = NoRecord \/ WellFormed(store[pk])

\* a turn on a full history of answered turns: the cut fell before a model
\* entry, which was dropped, and the record begins with a user entry; and a
\* turn on a history that ends with two unanswered messages
C33_Witness ==
    \E s \in Slots :
        /\ Succeeded(s)
        /\ Len(inv[s].loaded) = MAX_HISTORY_LENGTH
        /\ inv[s].loaded[2].role = "model"
        /\ Len(inv[s].sent) = MAX_HISTORY_LENGTH - 1
        /\ Len(store[PropertyKeyOf(s)].items) = MAX_HISTORY_LENGTH
        /\ WellFormed(store[PropertyKeyOf(s)])

\* text a ends text b
SuffixOf(a, b) ==
    Len(a) <= Len(b) /\ a = SubSeq(b, Len(b) - Len(a) + 1, Len(b))

\* the last entry of the contents slot s submitted
LastSubmitted(s) == inv[s].contents[Len(inv[s].contents)]

\* C36: the contents of every backend call of a turn end with a user entry
\* whose text is the prompt of the turn, or ends with a newline and the
\* prompt (merged after earlier user messages); neither the cap nor the
\* merging of adjacent roles drops the prompt.
C36_ContentsEndWithPrompt ==
    \A s \in Slots :
        (InTurn(s) /\ inv[s].fetches = 1) =>
            /\ Len(inv[s].contents) > 0
            /\ LastSubmitted(s).role = "user"
            /\ \/ TextOf(LastSubmitted(s)) = inv[s].prompt
               \/ SuffixOf(<<"\n">> \o inv[s].prompt, TextOf(LastSubmitted(s)))

\* a call on a history at the cap that ends with unanswered user messages:
\* the prompt is merged after them
C36_Witness ==
    \E s \in Slots :
        /\ InTurn(s) /\ inv[s].fetches = 1
        /\ Len(inv[s].loaded) = MAX_HISTORY_LENGTH
        /\ Len(inv[s].sent) = MAX_HISTORY_LENGTH
        /\ TextOf(LastSubmitted(s)) # inv[s].prompt
        /\ SuffixOf(<<"\n">> \o inv[s].prompt, TextOf(LastSubmitted(s)))

-----------------------------------------------------------------------------
(* Properties of two invocations of onMessage (SpecRemembering)            *)

C25_RemovalDeletesAndNextTurnStartsEmpty ==
    \A s \in Slots :
        /\ (inv[s].handler = "onRemoveFromSpace" /\ inv[s].pc = "done") =>
               /\ store[<<inv[s].event.space.name, "_history">>] = NoRecord
               /\ inv[s].reply = NoReply
        /\ (/\ last.seen /\ last.event.type = "REMOVED_FROM_SPACE"
            /\ inv[s].kind = "turn"
            /\ inv[s].key = last.event.space.name) =>
               /\ inv[s].prior[PropertyKeyOf(s)] = NoRecord
               /\ inv[s].loaded = <<>>
               /\ inv[s].sent = <<Msg("user", inv[s].prompt)>>

\* the bot was removed from a conversation with two stored entries, and the
\* turn that came next for that conversation started from nothing
C25_Witness ==
    \E s \in Slots :
        /\ last.seen /\ last.event.type = "REMOVED_FROM_SPACE"
        /\ last.record = JSONstringify(Alt(2))
        /\ TurnDone(s) /\ inv[s].key = last.event.space.name
        /\ inv[s].loaded = <<>>
        /\ Succeeded(s) /\ Len(inv[s].history) = 2


-----------------------------------------------------------------------------
(* Properties of overlapping invocations (SpecOverlap)                     *)

Range(f) == {f[n] : n \in DOMAIN f}

\* a is the beginning of b
PrefixOf(a, b) == Len(a) <= Len(b) /\ a = SubSeq(b, 1, Len(a))

\* the history h holds the entries of a, one for one: the same roles, and
\* the texts of a, to which the merging of the call may have added text
\* (filterAndPrepareHistory writes through the shared parts[0])
Holds(h, a) ==
    /\ Len(h) = Len(a)
    /\ \A n \in 1..Len(a) :
           /\ h[n].role = a[n].role
           /\ PrefixOf(TextOf(a[n]), TextOf(h[n]))

\* the turn of slot s ends in this step
Ends(s) == inv[s].kind = "turn" /\ inv[s].pc = "fetch" /\ inv'[s].pc = "done"

\* the entries a turn appends: its user message, and the reply i.result.text
\* when it is a text of the backend that is no error message
Appended(i) ==
    <<Msg("user", i.prompt)>>
    \o (IF /\ i.result.site = "text" /\ i.result.text # <<>>
           /\ i.result.text[1] \notin {"Sorry,", "ERROR:"}
        THEN <<Msg("model", i.result.text)>>
        ELSE <<>>)

\* the turn of slot t has ended, for the conversation of the turn of slot s,
\* which had loaded before that: both loaded before either saved
Overlapped(s, t) ==
    /\ t # s /\ TurnDone(t) /\ inv[t].key = inv[s].key
    /\ inv[s].began <= inv[t].ended

\* no other invocation was at work since the turn of slot s began
Serialized(s) ==
    \A t \in Slots \ {s} :
        inv[t].kind = "" \/ (inv[t].pc = "done" /\ inv[t].ended < inv[s].began)

\* the history in the record r
StoredHistory(r) == IF r.kind = "array" THEN r.items ELSE <<>>

\* C26: the turn that saves last wins.  The record a turn leaves is the
\* history it loaded followed by its own entries, cut at its beginning to
\* the cap; so when another turn for the key loaded before and has saved meanwhile, that
\* turn's user message and reply are not in the record; and when no other
\* invocation was at work during the turn, the history loaded is what was
\* stored before it, so that nothing stored is lost but by the cap.
C26_LastSaveWins ==
    [][\A s \in Slots :
        Ends(s) =>
            LET all == inv[s].loaded \o Appended(inv'[s])
                pk == <<inv[s].key, "_history">>
            IN  /\ store'[pk] = JSONstringify(inv'[s].history)
                /\ Len(inv'[s].history) <= Len(all)
                /\ Holds(inv'[s].history,
                         SubSeq(all, Len(all) - Len(inv'[s].history) + 1, Len(all)))
                /\ Len(all) <= MAX_HISTORY_LENGTH =>
                       Len(inv'[s].history) = Len(all)
                /\ \A t \in Slots :
                       Overlapped(s, t) =>
                           \A e \in Range(Appended(inv[t])) :
                               e \notin Range(all) =>
                                   e \notin Range(store'[pk].items)
                /\ (Serialized(s) /\ ~IsNewChat(s)) =>
                       inv[s].loaded = StoredHistory(inv[s].prior[pk])
      ]_vars

\* two turns for the direct conversation, with different messages and
\* different replies, both loaded the two stored entries; both have ended,
\* and the record is that of slot s, without the entries of the other
C26_Witness ==
    \E s, t \in Slots :
        /\ s # t /\ Succeeded(s) /\ Succeeded(t)
        /\ inv[s].key = DmKey /\ inv[t].key = DmKey
        /\ inv[s].began <= inv[t].ended /\ inv[t].began <= inv[s].ended
        /\ inv[s].loaded = Alt(2) /\ inv[t].loaded = Alt(2)
        /\ inv[s].prompt # inv[t].prompt
        /\ inv[s].result.text # inv[t].result.text
        /\ store[<<DmKey, "_history">>] = JSONstringify(inv[s].history)
        /\ inv[s].history = Alt(2) \o Appended(inv[s])
        /\ inv[t].history = Alt(2) \o Appended(inv[t])
        /\ \A e \in Range(Appended(inv[t])) :
               e \notin Range(store[<<DmKey, "_history">>].items)


-----------------------------------------------------------------------------
(* More properties of what onMessage makes of an event (SpecEvents)        *)

\* a free-text message of a person in a direct conversation, with text
\* that is not blank
DirectText(s) ==
    /\ OfMessage(s)
    /\ inv[s].event.slashCommand = 0
    /\ inv[s].event.user.type # "BOT"
    /\ inv[s].event.space.type = "DM"
    /\ Trim(inv[s].event.text) # <<>>

ClearWords == {<<"clearhistory">>, <<"ClearHistory">>}

\* the invocation of slot s did with the prompt p what onMessage does with
\* a prompt: nothing when it is empty, a clearing for the word
\* clearhistory, a turn otherwise
Taken(s, p) ==
    IF p = <<>> THEN Ignored(s)
    ELSE IF p \in ClearWords THEN inv[s].kind = "clear"
    ELSE /\ inv[s].kind = "turn"
         /\ inv[s].prompt = Preamble(inv[s].event.user) \o p

PrivateReply(s) ==
    /\ inv[s].reply.kind = "card"
    /\ inv[s].reply.private
    /\ inv[s].reply.viewer = inv[s].event.user.name

\* the reply of slot s is for the whole conversation
PublicReply(s) ==
    /\ inv[s].reply.kind = "card"
    /\ ~inv[s].reply.private /\ inv[s].reply.viewer = ""

\* the replies to usage errors, to unknown commands and to /source are
\* private, the replies of turns are public
UsagePrivateTurnsPublic(s) ==
    /\ inv[s].kind \in {"card", "source"} => PrivateReply(s)
    /\ inv[s].kind = "turn" => PublicReply(s)

\* C29 as claimed: usage errors and /source are answered in private, turns
\* and the clearing of the history in public, in direct conversations and
\* in rooms.
C29_ClearRepliesPublic ==
    \A s \in Slots :
        (OfMessage(s) /\ inv[s].pc = "done") =>
            /\ UsagePrivateTurnsPublic(s)
            /\ inv[s].kind = "clear" => PublicReply(s)

\* C29: usage errors, unknown commands and /source are answered in
\* private to the writer of the event, turns in public, in direct
\* conversations and in rooms; the clearing of the history is answered in
\* public in a room and in private to its writer in a direct conversation.
C29_ClearRepliesPublicInRooms ==
    \A s \in Slots :
        (OfMessage(s) /\ inv[s].pc = "done") =>
            /\ UsagePrivateTurnsPublic(s)
            /\ (inv[s].kind = "clear" /\ inv[s].event.space.type = "ROOM") =>
                   PublicReply(s)
            /\ (inv[s].kind = "clear" /\ inv[s].event.space.type = "DM") =>
                   PrivateReply(s)

\* the history of a direct conversation was cleared and the confirmation
\* is for the writer alone
C29_Witness ==
    \E s \in Slots :
        /\ OfMessage(s) /\ inv[s].pc = "done" /\ inv[s].kind = "clear"
        /\ inv[s].event.space.type = "DM"
        /\ inv[s].prior[PropertyKeyOf(s)] = JSONstringify(Alt(2))
        /\ store[PropertyKeyOf(s)] = NoRecord
        /\ inv[s].reply.private /\ inv[s].reply.viewer = "users/1"

-----------------------------------------------------------------------------
(* Properties of the handlers on a store that may reject writes            *)
(* (SpecStorage, SpecStorageFair)                                          *)

\* the invocation of slot s has ended as a handler may: with a card whose
\* text is not empty, or with nothing to send for an event it ignores
EndedWell(s) ==
    IF inv[s].kind \in {"turn", "clear", "card", "source"}
    THEN /\ inv[s].reply.kind = "card"
         /\ inv[s].reply.text # <<>>
         /\ \E n \in 1..Len(inv[s].reply.text) : ~IsSpace(inv[s].reply.text[n])
    ELSE /\ inv[s].kind \in {"undefined", "empty"}
         /\ inv[s].reply \in {NoReply, EmptyReply}

ReplyTextFor(t) == IF t = <<>> THEN <<"No response received.">> ELSE t

\* C30: a save never fails the turn: the turn that ends replies with what
\* the call to the backend returned, whether the store takes the history
\* or rejects it; and when the store rejects it, the record of the key is
\* after the save what it was before it.
C30_RejectedSaveKeepsRecordAndReply ==
    [][\A s \in Slots :
        Ends(s) =>
            /\ inv'[s].reply.kind = "card"
            /\ inv'[s].reply.text = ReplyTextFor(inv'[s].result.text)
            /\ quota => store' = store
            /\ ~quota =>
                   store'[<<inv[s].key, "_history">>]
                       = JSONstringify(inv'[s].history)
      ]_vars

\* the store rejected the save of a turn that got a text from the backend:
\* the turn replied with the text and the record holds its two entries
C30_Witness ==
    \E s \in Slots :
        /\ Succeeded(s) /\ quota
        /\ inv[s].log = <<<<"rejected", PropertyKeyOf(s)>>>>
        /\ inv[s].reply.text = <<"hi">>
        /\ inv[s].prior[PropertyKeyOf(s)] = JSONstringify(Alt(2))
        /\ store[PropertyKeyOf(s)] = JSONstringify(Alt(2))
        /\ Len(inv[s].history) = 4


\* C34 as claimed: once a clearing (or a removal) for a key has replied, no
\* entry stored for the key before it is in the record of the key, also
\* when a turn for the key had loaded before the clearing and saves after
\* it.
C34_ClearedEntriesStayCleared ==
    \A t \in Slots :
        (inv[t].pc = "done" /\ inv[t].kind \in {"clear", "removed"}) =>
            \A e \in Range(StoredHistory(inv[t].prior[PropertyKeyOf(t)])) :
                e \notin Range(StoredHistory(store[PropertyKeyOf(t)]))

=============================================================================
